---------------------------- MODULE Spec2Model ----------------------------
(***************************************************************************)
(* Model of the bid-tabulation extraction engine of bidparse/scripts       *)
(* (parser_v1.py and parser_v2.py).                                        *)
(*                                                                         *)
(* Representation.  A Python str is a sequence of one-character strings,   *)
(* so that the regular expressions and the string methods of the source    *)
(* are computed character by character.  None is the value None below.  A  *)
(* float is a pair <<m, e>> standing for m / 10^e, kept canonical (m not   *)
(* divisible by 10 unless e = 0), so that equal floats are equal values.   *)
(***************************************************************************)
EXTENDS Integers, Sequences, FiniteSets, TLC

None == <<"None">>

----------------------------------------------------------------------------
(* Characters and character classes of Python's re module. *)

Digits == {"0","1","2","3","4","5","6","7","8","9"}
UpperSeq == <<"A","B","C","D","E","F","G","H","I","J","K","L","M","N","O","P","Q","R","S","T","U","V","W","X","Y","Z">>
LowerSeq == <<"a","b","c","d","e","f","g","h","i","j","k","l","m","n","o","p","q","r","s","t","u","v","w","x","y","z">>
Upper == {UpperSeq[i] : i \in 1..26}
Lower == {LowerSeq[i] : i \in 1..26}
\* \w
WordChars == Digits \cup Upper \cup Lower \cup {"_"}
\* \s  (also the characters str.strip() and str.split() remove)
Whitespace == {" ", "\t", "\n", "\r", "\f"}
\* the line boundaries of str.splitlines()
LineBreaks == {"\n", "\r", "\f"}

DigitVal(c) == CASE c = "0" -> 0 [] c = "1" -> 1 [] c = "2" -> 2 [] c = "3" -> 3
                 [] c = "4" -> 4 [] c = "5" -> 5 [] c = "6" -> 6 [] c = "7" -> 7
                 [] c = "8" -> 8 [] c = "9" -> 9

\* the element of a set of one element. An operator whose body is written
\*   The({ e : x \in {x0} })
\* evaluates its argument x0 once and e on its value x.
The(S) == CHOOSE r \in S : TRUE

\* str.lower() of one character
LowerChar(c) == IF c \in Upper
                THEN LowerSeq[CHOOSE i \in 1..26 : UpperSeq[i] = c]
                ELSE c
ToLower(s0) == The({ [i \in 1..Len(s) |-> LowerChar(s[i])] : s \in {s0} })

Min(S) == CHOOSE x \in S : \A y \in S : x <= y
Max(S) == CHOOSE x \in S : \A y \in S : x >= y

----------------------------------------------------------------------------
(* String primitives. *)

\* s[i-1:i-1+len(pat)] == pat
MatchAt(s0, i0, pat0) ==
  The({ ( /\ i >= 1
         /\ i + Len(pat) - 1 <= Len(s)
         /\ \A k \in 1..Len(pat) : s[i + k - 1] = pat[k]
       ) : s \in {s0}, i \in {i0}, pat \in {pat0} })

\* s.find(pat, from-1) + 1  (0 when pat does not occur)
Find(s0, pat0, from0) ==
  The({ ( LET P == {i \in from..(Len(s) - Len(pat) + 1) : MatchAt(s, i, pat)}
         IN IF P = {} THEN 0 ELSE Min(P)
       ) : s \in {s0}, pat \in {pat0}, from \in {from0} })

\* pat in s
Contains(s, pat) == Find(s, pat, 1) # 0

\* s.startswith(pat)
StartsWith(s, pat) == MatchAt(s, 1, pat)

\* the first index >= i whose character is not in cls (Len(s)+1 if none)
SkipWhile(s0, i0, cls0) ==
  The({ ( LET J == {j \in i..Len(s) : s[j] \notin cls}
         IN IF J = {} THEN Len(s) + 1 ELSE Min(J)
       ) : s \in {s0}, i \in {i0}, cls \in {cls0} })

\* the first index >= i whose character is in cls (Len(s)+1 if none)
SkipUntil(s0, i0, cls0) ==
  The({ ( LET J == {j \in i..Len(s) : s[j] \in cls}
         IN IF J = {} THEN Len(s) + 1 ELSE Min(J)
       ) : s \in {s0}, i \in {i0}, cls \in {cls0} })

\* s.strip(chars)
Strip(s0, chars0) ==
  The({ ( LET K == {j \in 1..Len(s) : s[j] \notin chars}
         IN IF K = {} THEN <<>> ELSE SubSeq(s, Min(K), Max(K))
       ) : s \in {s0}, chars \in {chars0} })

\* s.replace(c, "") for a single character c
RemoveChar(s, c) == SelectSeq(s, LAMBDA x : x # c)

\* re.sub(r"[cls]+", " ", s)
\* the characters from i on that are kept: those outside the class, and
\* the first one of every run of the class, which becomes a space
CollapseFrom(s0, i0, cls0) ==
  The({ ( LET first == SelectSeq([j \in 1..Len(s) |-> j],
                        LAMBDA j : /\ j >= i
                                   /\ \/ s[j] \notin cls
                                      \/ j = i
                                      \/ s[j - 1] \notin cls)
         IN [k \in 1..Len(first) |->
               IF s[first[k]] \in cls THEN " " ELSE s[first[k]]]
       ) : s \in {s0}, i \in {i0}, cls \in {cls0} })

\* parser_v2.normalize_ws: re.sub(r"\s+", " ", s).strip()
normalize_ws(s0) ==
  The({ Strip(CollapseFrom(s, 1, Whitespace), Whitespace) : s \in {s0} })

\* parser_v1.normalize_ws: re.sub(r"[ \t]+", " ", s).strip()
normalize_ws_v1(s0) ==
  The({ Strip(CollapseFrom(s, 1, {" ", "\t"}), Whitespace) : s \in {s0} })

\* s.split(): the maximal runs of non-whitespace characters
RECURSIVE SplitFrom(_, _)
SplitFrom(s0, i0) ==
  The({ ( LET b == SkipWhile(s, i, Whitespace)
             e == SkipUntil(s, b, Whitespace)
         IN IF b > Len(s) THEN <<>>
            ELSE <<SubSeq(s, b, e - 1)>> \o SplitFrom(s, e)
       ) : s \in {s0}, i \in {i0} })
Split(s0) == The({ SplitFrom(s, 1) : s \in {s0} })

\* s.splitlines()
RECURSIVE SplitLinesFrom(_, _)
SplitLinesFrom(s0, i0) ==
  The({ ( LET e == SkipUntil(s, i, LineBreaks)
             nxt == IF e < Len(s) /\ s[e] = "\r" /\ s[e + 1] = "\n" THEN e + 2 ELSE e + 1
         IN IF i > Len(s) THEN <<>>
            ELSE <<SubSeq(s, i, e - 1)>> \o SplitLinesFrom(s, nxt)
       ) : s \in {s0}, i \in {i0} })
splitlines(s0) == The({ SplitLinesFrom(s, 1) : s \in {s0} })

\* sep.join(parts) for a one-character separator
RECURSIVE Join(_, _)
Join(parts0, sep0) ==
  The({ ( IF parts = <<>> THEN <<>>
         ELSE IF Len(parts) = 1 THEN parts[1]
         ELSE parts[1] \o <<sep>> \o Join(Tail(parts), sep)
       ) : parts \in {parts0}, sep \in {sep0} })

----------------------------------------------------------------------------
(* float() on a str: surrounding whitespace and one sign are dropped; the    *)
(* rest is inf, infinity or nan in any letter case, or a decimal literal     *)
(*   digitpart [. [digitpart]] | . digitpart,  then optionally               *)
(*   (e | E) [+ | -] digitpart,                                              *)
(* where digitpart is digits with single underscores between them.  Any      *)
(* other text raises ValueError, which both token parsers catch (None        *)
(* here).  A finite value is the pair <<m, e>> standing for m / 10^e in      *)
(* lowest terms; the three special values are Infinity, -Infinity and NaN.   *)

RECURSIVE DigitsVal(_)
DigitsVal(s) ==
  IF s = <<>> THEN 0
  ELSE 10 * DigitsVal(SubSeq(s, 1, Len(s) - 1)) + DigitVal(s[Len(s)])

RECURSIVE Canon(_, _)
Canon(m, e) ==
  IF m = 0 THEN <<0, 0>>
  ELSE IF e > 0 /\ m % 10 = 0 THEN Canon(m \div 10, e - 1)
  ELSE <<m, e>>

RECURSIVE Pow10(_)
Pow10(k) == IF k <= 0 THEN 1 ELSE 10 * Pow10(k - 1)

PosInf == <<"Infinity">>
NegInf == <<"-Infinity">>
NaN == <<"NaN">>

\* digits, with single underscores between digits only
IsDigitPart(s) ==
  /\ s # <<>>
  /\ s[1] \in Digits
  /\ s[Len(s)] \in Digits
  /\ \A k \in 1..Len(s) : s[k] \in Digits \cup {"_"}
  /\ \A k \in 1..(Len(s) - 1) : ~(s[k] = "_" /\ s[k + 1] = "_")

\* Op applied to the value of a
Eval1(Op(_), a) == CHOOSE r \in { Op(v) : v \in {a} } : TRUE

\* the exponent after e or E: [+ | -] digitpart
ExponentDigits(ex) == IF ex # <<>> /\ ex[1] \in {"+", "-"} THEN Tail(ex) ELSE ex
ExponentValue(ex) ==
  IF ex[1] = "-" THEN 0 - DigitsVal(RemoveChar(ExponentDigits(ex), "_"))
  ELSE DigitsVal(RemoveChar(ExponentDigits(ex), "_"))

\* the value of the digits id . fd times ten to the power xv
DecimalValue(id, fd, xv) ==
  IF xv >= Len(fd) THEN <<DigitsVal(id \o fd) * Pow10(xv - Len(fd)), 0>>
  ELSE Canon(DigitsVal(id \o fd), Len(fd) - xv)

\* q = <<integer part, fraction part, whether there is an exponent, exponent>>
DecimalParts(q) ==
  IF /\ q[1] = <<>> \/ IsDigitPart(q[1])
     /\ q[2] = <<>> \/ IsDigitPart(q[2])
     /\ Len(q[1]) + Len(q[2]) >= 1
     /\ q[3] => IsDigitPart(ExponentDigits(q[4]))
  THEN DecimalValue(RemoveChar(q[1], "_"), RemoveChar(q[2], "_"),
                    IF q[3] THEN ExponentValue(q[4]) ELSE 0)
  ELSE None

\* p = <<mantissa, whether there is an exponent, exponent>>
DecimalFloat(p) ==
  LET dot == SkipUntil(p[1], 1, {"."})
  IN Eval1(DecimalParts,
           <<SubSeq(p[1], 1, dot - 1), SubSeq(p[1], dot + 1, Len(p[1])), p[2], p[3]>>)

\* the text behind the sign
UnsignedFloat(u) ==
  LET ep == SkipUntil(u, 1, {"e", "E"})
  IN IF ToLower(u) \in {<<"i","n","f">>, <<"i","n","f","i","n","i","t","y">>} THEN PosInf
     ELSE IF ToLower(u) = <<"n","a","n">> THEN NaN
     ELSE Eval1(DecimalFloat,
                <<SubSeq(u, 1, ep - 1), ep <= Len(u), SubSeq(u, ep + 1, Len(u))>>)

Negate(v) ==
  IF v = None \/ v = NaN THEN v
  ELSE IF v = PosInf THEN NegInf
  ELSE <<0 - v[1], v[2]>>

\* t = the text without the surrounding white space
SignedFloat(t) ==
  IF t # <<>> /\ t[1] = "-" THEN Eval1(Negate, Eval1(UnsignedFloat, Tail(t)))
  ELSE IF t # <<>> /\ t[1] = "+" THEN Eval1(UnsignedFloat, Tail(t))
  ELSE UnsignedFloat(t)

ParseFloat(x) == Eval1(SignedFloat, Strip(x, Whitespace))

\* money_to_float
money_to_float(x) ==
  IF x = None THEN None
  ELSE ParseFloat(RemoveChar(RemoveChar(x, "$"), ","))

\* qty_to_float
qty_to_float(x) ==
  IF x = None THEN None
  ELSE ParseFloat(RemoveChar(x, ","))

----------------------------------------------------------------------------
(* The regular expressions of the module header. *)

\* \b at the gap before index i (between s[i-1] and s[i])
WordBoundary(s0, i0) ==
  The({ ( LET before == i > 1 /\ i - 1 <= Len(s) /\ s[i - 1] \in WordChars
             after == i >= 1 /\ i <= Len(s) /\ s[i] \in WordChars
         IN before # after
       ) : s \in {s0}, i \in {i0} })

AllDigits(s0, i0, n0) ==
  The({ ( /\ i + n - 1 <= Len(s)
         /\ \A k \in i..(i + n - 1) : s[k] \in Digits
       ) : s \in {s0}, i \in {i0}, n \in {n0} })

\* LINE_ITEM_RE = \b([A-Z]\d{3,4})\b matched at index i: the end index + 1, or 0
LineItemEnd(s0, i0) ==
  The({ ( IF ~(i >= 1 /\ i <= Len(s) /\ s[i] \in Upper /\ WordBoundary(s, i)) THEN 0
         ELSE IF AllDigits(s, i + 1, 4) /\ WordBoundary(s, i + 5) THEN i + 5
         ELSE IF AllDigits(s, i + 1, 3) /\ WordBoundary(s, i + 4) THEN i + 4
         ELSE 0
       ) : s \in {s0}, i \in {i0} })

\* LINE_ITEM_RE.search(s): the captured code, or None
LINE_ITEM_RE_search(s) ==
  LET P == {i \in 1..Len(s) : LineItemEnd(s, i) # 0}
  IN IF P = {} THEN None ELSE SubSeq(s, Min(P), LineItemEnd(s, Min(P)) - 1)

\* LINE_ITEM_RE.fullmatch(s)
LINE_ITEM_RE_fullmatch(s) == Len(s) >= 1 /\ LineItemEnd(s, 1) = Len(s) + 1

\* PAY_ITEM_RE = \b(\d{5}-\d{4})\b matched at index i
PayItemAt(s0, i0) ==
  The({ ( /\ WordBoundary(s, i)
         /\ AllDigits(s, i, 5)
         /\ i + 5 <= Len(s) /\ s[i + 5] = "-"
         /\ AllDigits(s, i + 6, 4)
         /\ WordBoundary(s, i + 10)
       ) : s \in {s0}, i \in {i0} })

\* PAY_ITEM_RE.search(s): the captured code, or None
PAY_ITEM_RE_search(s) ==
  LET P == {i \in 1..Len(s) : PayItemAt(s, i)}
  IN IF P = {} THEN None ELSE SubSeq(s, Min(P), Min(P) + 9)

\* PAY_ITEM_RE.fullmatch(s)
PAY_ITEM_RE_fullmatch(s) == Len(s) = 10 /\ PayItemAt(s, 1)

\* MONEY_RE = \$\s*([0-9][0-9,]*(?:\.[0-9]{2})?) matched at index i:
\* <<start of the group, end of the match + 1>>, or <<0, 0>>
MoneyAt(s0, i0) ==
  The({ ( LET q == SkipWhile(s, i + 1, Whitespace)
             r == SkipWhile(s, q, Digits \cup {","})
             e == IF r <= Len(s) /\ s[r] = "." /\ AllDigits(s, r + 1, 2) THEN r + 3 ELSE r
         IN IF i <= Len(s) /\ s[i] = "$" /\ q <= Len(s) /\ s[q] \in Digits
            THEN <<q, e>> ELSE <<0, 0>>
       ) : s \in {s0}, i \in {i0} })

\* MONEY_RE.findall(s): the captured groups of the non-overlapping matches
RECURSIVE MoneyFindAllFrom(_, _)
MoneyFindAllFrom(s0, i0) ==
  The({ ( LET P == {p \in i..Len(s) : MoneyAt(s, p)[1] # 0}
             m == MoneyAt(s, Min(P))
         IN IF P = {} THEN <<>>
            ELSE <<SubSeq(s, m[1], m[2] - 1)>> \o MoneyFindAllFrom(s, m[2])
       ) : s \in {s0}, i \in {i0} })
MONEY_RE_findall(s0) == The({ MoneyFindAllFrom(s, 1) : s \in {s0} })

\* MONEY_RE.search(s) is not None
MONEY_RE_search(s) == \E p \in 1..Len(s) : MoneyAt(s, p)[1] # 0

\* QTY_RE.fullmatch(s), QTY_RE = \b([0-9][0-9,]*(?:\.[0-9]{3})?)\b
QTY_RE_fullmatch(s0) ==
  The({ ( LET r == SkipWhile(s, 1, Digits \cup {","})
         IN /\ Len(s) >= 1
            /\ s[1] \in Digits
            /\ \/ r = Len(s) + 1
               \/ r <= Len(s) /\ s[r] = "." /\ AllDigits(s, r + 1, 3) /\ r + 3 = Len(s)
            \* the closing \b: the last character is a word character
            /\ s[Len(s)] \in WordChars
       ) : s \in {s0} })

UNITS == { <<"L","N","F","T">>, <<"S","Q","Y","D">>, <<"C","U","Y","D">>, <<"T","O","N">>, <<"E","A","C","H">>, <<"L","P","S","M">>,
           <<"L","F">>, <<"S","Y">>, <<"C","Y">>, <<"E","A">>, <<"L","S">>, <<"S","Q","F","T">>, <<"G","A","L">> }

\* re.search(r"Engineer.?s Estimate", s, flags=re.IGNORECASE)
IsEngineerLine(s0) ==
  The({ ( LET l == ToLower(s)
         IN \E p \in 1..Len(s) :
              /\ MatchAt(l, p, <<"e","n","g","i","n","e","e","r">>)
              /\ \/ MatchAt(l, p + 8, <<"s"," ","e","s","t","i","m","a","t","e">>)
                 \/ /\ p + 8 <= Len(s) /\ s[p + 8] # "\n"
                    /\ MatchAt(l, p + 9, <<"s"," ","e","s","t","i","m","a","t","e">>)
       ) : s \in {s0} })


----------------------------------------------------------------------------
(* Python truthiness and the "or" of optional strings. *)

\* bool(x) for x a str or None
Truthy(x) == x # None /\ x # <<>>

\* a or b
Or(a, b) == IF Truthy(a) THEN a ELSE b

\* normalize_ws of the parser version v
NormWs(v, s) == IF v = 1 THEN normalize_ws_v1(s) ELSE normalize_ws(s)

----------------------------------------------------------------------------
(* Schedule / option tags.                                                  *)
(* parser_v2 and the text strategy of parser_v1 search                      *)
(*   Schedule:\s*([A-Z])   and   Option:\s*([A-Z]+).                        *)
(* The table strategy of parser_v1 writes the patterns with a doubled       *)
(* backslash in a raw string, r"Schedule:\\s*([A-Z])": a literal            *)
(* backslash, then any number of letters s, then the capture.               *)

\* the index of the capture of a tag whose keyword matches at p, or 0
TagCaptureAt(ln0, p0, key0, escaped0) ==
  The({ ( LET a == p + Len(key)
             c == IF escaped
                  THEN IF a <= Len(ln) /\ ln[a] = "\\"
                       THEN SkipWhile(ln, a + 1, {"s"}) ELSE 0
                  ELSE SkipWhile(ln, a, Whitespace)
         IN IF MatchAt(ln, p, key) /\ c >= 1 /\ c <= Len(ln) /\ ln[c] \in Upper
            THEN c ELSE 0
       ) : ln \in {ln0}, p \in {p0}, key \in {key0}, escaped \in {escaped0} })

\* re.search(key + sep + capture, ln): the captured group, or None
\* many = FALSE captures ([A-Z]), many = TRUE captures ([A-Z]+)
TagSearch(ln0, key0, escaped0, many0) ==
  The({ ( LET P == {p \in 1..Len(ln) : TagCaptureAt(ln, p, key, escaped) # 0}
             c == TagCaptureAt(ln, Min(P), key, escaped)
         IN IF P = {} THEN None
            ELSE IF many THEN SubSeq(ln, c, SkipWhile(ln, c, Upper) - 1)
            ELSE <<ln[c]>>
       ) : ln \in {ln0}, key \in {key0}, escaped \in {escaped0}, many \in {many0} })

\* the value left by  "for ln in lines: m = re.search(...); if m: x = m.group(1)"
RECURSIVE LastTag(_, _, _, _)
LastTag(lines0, key0, escaped0, many0) ==
  The({ ( IF lines = <<>> THEN None
         ELSE LET m == TagSearch(lines[Len(lines)], key, escaped, many)
              IN IF m # None THEN m
                 ELSE LastTag(SubSeq(lines, 1, Len(lines) - 1), key, escaped, many)
       ) : lines \in {lines0}, key \in {key0}, escaped \in {escaped0}, many \in {many0} })

----------------------------------------------------------------------------
(* Table strategy: parse_line_items_tables.                                 *)

\* c or ""
CellStr(c) == IF c = None THEN <<>> ELSE c

\* re.sub(r"Report Generated on .*? Page \\d+ of \\d+", "", s): the doubled
\* backslashes make the pattern ask for a literal backslash followed by
\* letters d where a page number was meant.
FooterTailEnd(s, q) ==
  LET r == SkipWhile(s, q + 7, {"d"})
      e == SkipWhile(s, r + 5, {"d"})
  IN IF /\ MatchAt(s, q, <<" ","P","a","g","e"," ","\\">>) /\ r > q + 7
        /\ MatchAt(s, r, <<" ","o","f"," ","\\">>) /\ e > r + 5
     THEN e ELSE 0
FooterEnd(s, p) ==
  LET Q == {q \in (p + 20)..Len(s) :
              /\ FooterTailEnd(s, q) # 0
              /\ \A k \in (p + 20)..(q - 1) : s[k] # "\n"}
  IN IF MatchAt(s, p, <<"R","e","p","o","r","t"," ","G","e","n","e","r","a","t","e","d"," ","o","n"," ">>) /\ Q # {}
     THEN FooterTailEnd(s, Min(Q)) ELSE 0
RECURSIVE SubFooter(_, _)
SubFooter(s, i) ==
  IF i > Len(s) THEN <<>>
  ELSE IF FooterEnd(s, i) # 0 THEN SubFooter(s, FooterEnd(s, i))
  ELSE <<s[i]>> \o SubFooter(s, i + 1)

\* re.sub(r"Generated by\\s*:\\s*.*", "", s)
GeneratedByEnd(s, p) ==
  LET a == SkipWhile(s, p + 13, {"s"})
      b == SkipWhile(s, a + 2, {"s"})
  IN IF /\ MatchAt(s, p, <<"G","e","n","e","r","a","t","e","d"," ","b","y","\\">>)
        /\ MatchAt(s, a, <<":","\\">>)
     THEN SkipUntil(s, b, {"\n"}) ELSE 0
RECURSIVE SubGeneratedBy(_, _)
SubGeneratedBy(s, i) ==
  IF i > Len(s) THEN <<>>
  ELSE IF GeneratedByEnd(s, i) # 0 THEN SubGeneratedBy(s, GeneratedByEnd(s, i))
  ELSE <<s[i]>> \o SubGeneratedBy(s, i + 1)

\* re.sub(r"\\[Timezone:.*?\\]", "", s): a literal backslash followed by one
\* character of the class [Timezone:.*?\\]
TimezoneClass == {"T","i","m","e","z","o","n",":",".","*","?","\\"}
RECURSIVE SubTimezone(_, _)
SubTimezone(s, i) ==
  IF i > Len(s) THEN <<>>
  ELSE IF s[i] = "\\" /\ i < Len(s) /\ s[i + 1] \in TimezoneClass
       THEN SubTimezone(s, i + 2)
  ELSE <<s[i]>> \o SubTimezone(s, i + 1)

\* clean_cell
clean_cell(v, c) ==
  NormWs(v, SubTimezone(SubGeneratedBy(SubFooter(NormWs(v, CellStr(c)), 1), 1), 1))


\* has_header: both markers occur in " ".join(normalize_ws(c or "") for c in table[0])
has_header(v, table) ==
  LET header == [k \in 1..Len(table[1]) |-> NormWs(v, CellStr(table[1][k]))]
      joined == Join(header, " ")
  IN Contains(joined, <<"L","i","n","e"," ","I","t","e","m">>) /\ Contains(joined, <<"P","a","y"," ","I","t","e","m">>)

\* rows_iter = table[1:] if has_header else table
rows_iter(v, table) == IF has_header(v, table) THEN Tail(table) ELSE table

\* found_sig: some row of at least two cells whose first two cells are a
\* line-item code and a pay-item code
found_sig(v, rows) ==
  \E k \in 1..Len(rows) :
    /\ Len(rows[k]) >= 2
    /\ LINE_ITEM_RE_fullmatch(NormWs(v, CellStr(rows[k][1])))
    /\ PAY_ITEM_RE_fullmatch(NormWs(v, CellStr(rows[k][2])))

\* a parser that reads the rows of every non-empty table
TableAccepted_any(v, table) ==
  /\ table # <<>>
  /\ table[1] # <<>>

\* whether the rows of the table are parsed at all
TableAccepted(v, table) ==
  /\ table # <<>>
  /\ table[1] # <<>>
  /\ has_header(v, table) \/ found_sig(v, rows_iter(v, table))

\* cells = [clean_cell(c or "") for c in row], padded with "" to 8 cells
RowCells(v, row) ==
  [k \in 1..(IF Len(row) < 8 THEN 8 ELSE Len(row)) |->
     IF k <= Len(row) THEN clean_cell(v, row[k]) ELSE <<>>]

\* re.match(r"^[A-Z]\\d", line_item_no): the doubled backslash asks for one
\* capital letter, a literal backslash and the letter d
ScheduleFromCode(line_item_no) ==
  /\ Len(line_item_no) >= 3
  /\ line_item_no[1] \in Upper
  /\ line_item_no[2] = "\\"
  /\ line_item_no[3] = "d"

\* schedule_val of a row
schedule_val(schedule, last, line_item_no) ==
  LET sv == Or(schedule, last)
  IN IF ~Truthy(sv) /\ Truthy(line_item_no) /\ ScheduleFromCode(line_item_no)
     THEN <<line_item_no[1]>> ELSE sv

\* a parser that falls back to the value kept across pages
option_val_carried(option, last) == Or(option, last)

\* option_val = option: the option of the page, whatever was seen before
option_val(option, last) == option

\* a parser whose continuation rows record nothing
CarryForward_forget(cell, current) == current

\* the carry-forward values after a row that lacks a line item, a pay item
\* or a contractor
CarryForward(cell, current) == IF Truthy(cell) THEN cell ELSE current

\* the record a table row emits
TableRecord(v, cells, pageno, project_name, schedule, option, last, cur) ==
  LET line_item_no == Or(cells[1], cur[1])
  IN [ pdf_page |-> pageno,
       project_name |-> project_name,
       schedule |-> schedule_val(schedule, last, line_item_no),
       option |-> option_val(option, last),
       line_item_no |-> line_item_no,
       pay_item_no |-> Or(cells[2], cur[2]),
       description |-> Or(cells[3], cur[3]),
       quantity |-> IF Truthy(cells[5]) THEN qty_to_float(cells[5]) ELSE None,
       unit |-> Or(cells[6], None),
       contractor |-> cells[4],
       unit_price |-> IF Truthy(cells[7]) THEN money_to_float(cells[7]) ELSE None,
       amount |-> IF Truthy(cells[8]) THEN money_to_float(cells[8]) ELSE None,
       is_engineers_estimate |-> IF IsEngineerLine(cells[4]) THEN 1 ELSE 0 ]

\* a parser that keeps the rows without price
NoPriceSignal_never(rec) == FALSE

\* if amount is None and unit_price is None: continue
NoPriceSignal(rec) == rec.amount = None /\ rec.unit_price = None

\* one iteration of "for row in rows_iter": the records appended to out and
\* the next <<current_line_item, current_pay_item, current_desc>>
TableRowStep(v, row, pageno, project_name, schedule, option, last, cur) ==
  LET cells == RowCells(v, row)
      rec == TableRecord(v, cells, pageno, project_name, schedule, option, last, cur)
  IN IF \/ ~Truthy(rec.line_item_no) \/ ~Truthy(rec.pay_item_no)
        \/ ~Truthy(rec.contractor)
     THEN [ emit |-> <<>>,
            cur |-> << CarryForward(cells[1], cur[1]),
                       CarryForward(cells[2], cur[2]),
                       CarryForward(cells[3], cur[3]) >> ]
     ELSE IF NoPriceSignal(rec)
     THEN [ emit |-> <<>>, cur |-> cur ]
     ELSE [ emit |-> <<rec>>,
            cur |-> <<rec.line_item_no, rec.pay_item_no, rec.description>> ]

\* schedule / option of a page in the table strategy (the raw lines of the
\* page text); parser_v1 writes both patterns with the doubled backslash
PageScheduleTables(v, text) == LastTag(splitlines(text), <<"S","c","h","e","d","u","l","e",":">>, v = 1, FALSE)
PageOptionTables(v, text) == LastTag(splitlines(text), <<"O","p","t","i","o","n",":">>, v = 1, TRUE)


----------------------------------------------------------------------------
(* Contractor registry: extract_contractors (identical in both parsers).    *)

\* s.split("$")[0]
BeforeDollar(s) == SubSeq(s, 1, SkipUntil(s, 1, {"$"}) - 1)

\* re.search(r"\$\s*[0-9]", ln)
HasDollarDigit(ln) ==
  \E p \in 1..Len(ln) :
    /\ ln[p] = "$"
    /\ LET q == SkipWhile(ln, p + 1, Whitespace)
       IN q <= Len(ln) /\ ln[q] \in Digits

registry_suffixes ==
  { <<"I","n","c",".">>, <<"L","L","C">>, <<"C","o","r","p",".">>, <<"C","o","r","p","o","r","a","t","i","o","n">>, <<"C","o",".",",">>, <<"C","o","m","p","a","n","y">>,
    <<"C","o","n","s","t",".">>, <<"C","o","n","s","t","r","u","c","t","i","o","n">> }

address_words ==
  { <<"S","t","r","e","e","t">>, <<"R","o","a","d">>, <<"V","A">>, <<"N","C">>, <<"O","H">>, <<"F","L">>, <<"V","i","r","g","i","n","i","a">>,
    <<"N","o","r","t","h"," ","C","a","r","o","l","i","n","a">>, <<"O","h","i","o">>, <<"F","l","o","r","i","d","a">> }

\* re.search(r"\b(Street|Road|...)\b", ln)
LooksLikeAddress(ln) ==
  \E w \in address_words : \E p \in 1..Len(ln) :
    MatchAt(ln, p, w) /\ WordBoundary(ln, p) /\ WordBoundary(ln, p + Len(w))

\* the name a line contributes to the registry, or None
NameCandidate(ln) ==
  IF ~(\E x \in registry_suffixes : Contains(ln, x)) THEN None
  ELSE IF HasDollarDigit(ln)
  THEN LET left == Strip(BeforeDollar(ln), {" ", ","})
       IN IF Len(left) >= 3 /\ ~StartsWith(ToLower(left), <<"e","n","g","i","n","e","e","r">>)
          THEN left ELSE None
  ELSE IF /\ Len(ln) >= 3
          /\ ~StartsWith(ToLower(ln), <<"e","n","g","i","n","e","e","r">>)
          /\ ~StartsWith(ToLower(ln), <<"c","o","n","t","r","a","c","t">>)
          /\ ~StartsWith(ToLower(ln), <<"r","e","p","o","r","t">>)
          /\ ~LooksLikeAddress(ln)
  THEN Strip(ln, {" ", ","}) ELSE None

\* extract_contractors: the names, as a set (the callers only iterate over
\* them to build a set, so the order of the returned list is not observable)
extract_contractors(v, all_text) ==
  LET lines == splitlines(all_text)
      names == { NameCandidate(NormWs(v, lines[k])) : k \in 1..Len(lines) } \ {None}
  IN { n \in names : ~Contains(n, <<"E","n","g","i","n","e","e","r">>) /\ ~Contains(n, <<"E","s","t","i","m","a","t","e">>) }

----------------------------------------------------------------------------
(* Text strategy: parse_line_items_text of parser_v2.                       *)

suffix_tokens ==
  { <<"I","n","c",".">>, <<"L","L","C">>, <<"C","o","r","p",".">>, <<"C","o","r","p","o","r","a","t","i","o","n">>, <<"C","o",".",",">>, <<"C","o","m","p","a","n","y">>,
    <<"I","n","d","u","s","t","r","i","e","s">>, <<"C","o","n","s","t",".">> }

\* re.sub(r"\s{2,}", " ", s)
\* the characters from i on that are kept: those that are no white space,
\* and the first one of every run of white space; a run of two or more
\* becomes one space
CollapseRuns(s0, i0) ==
  The({ ( LET first == SelectSeq([j \in 1..Len(s) |-> j],
                        LAMBDA j : /\ j >= i
                                   /\ \/ s[j] \notin Whitespace
                                      \/ j = i
                                      \/ s[j - 1] \notin Whitespace)
         IN [k \in 1..Len(first) |->
               IF /\ s[first[k]] \in Whitespace
                  /\ first[k] < Len(s)
                  /\ s[first[k] + 1] \in Whitespace
               THEN " " ELSE s[first[k]]]
       ) : s \in {s0}, i \in {i0} })

\* a parser for which a line-item code alone starts an item
detect_item_start_either(ln) ==
  IF LINE_ITEM_RE_search(ln) # None
  THEN <<LINE_ITEM_RE_search(ln), <<>>, <<>>>> ELSE None

\* detect_item_start: <<line_item, pay_item, desc>>, or None
detect_item_start(ln) ==
  LET li == LINE_ITEM_RE_search(ln)
      pi == PAY_ITEM_RE_search(ln)
      \* re.sub(r"^.*?" + re.escape(pay_item), "", ln): the text after the
      \* first occurrence of the pay item
      rest == SubSeq(ln, Find(ln, pi, 1) + Len(pi), Len(ln))
      desc == Strip(CollapseRuns(Strip(rest, Whitespace), 1), Whitespace)
  IN IF li # None /\ pi # None THEN <<li, pi, desc>> ELSE None

\* the first j with QTY_RE.fullmatch(tokens[j]) and tokens[j + 1] in UNITS:
\* <<qty, unit>>, or <<None, None>>
QtyUnitPair(ln) ==
  LET tokens == Split(ln)
      J == {j \in 1..(Len(tokens) - 1) :
              QTY_RE_fullmatch(tokens[j]) /\ tokens[j + 1] \in UNITS}
  IN IF J = {} THEN <<None, None>>
     ELSE <<qty_to_float(tokens[Min(J)]), tokens[Min(J) + 1]>>

\* parse_engineer_line
parse_engineer_line(ln) == QtyUnitPair(ln)

\* looks_like_suffix
looks_like_suffix(ln) == \E tok \in suffix_tokens : Contains(ln, tok)

\* the maximal non-empty runs of characters outside cls
RECURSIVE RunsFrom(_, _, _)
RunsFrom(s0, i0, cls0) ==
  The({ ( LET b == SkipWhile(s, i, cls)
             e == SkipUntil(s, b, cls)
         IN IF b > Len(s) THEN <<>>
            ELSE <<SubSeq(s, b, e - 1)>> \o RunsFrom(s, e, cls)
       ) : s \in {s0}, i \in {i0}, cls \in {cls0} })

\* parts = [p.strip(" ,") for p in re.split(r"[\\s,]+", name) if p.strip(" ,")]
\* The doubled backslash makes the class [\\s,]: a backslash, the letter s
\* and the comma are the separators, white space is not.
NameParts(name) ==
  LET runs == RunsFrom(name, 1, {"\\", "s", ","})
      stripped == [k \in 1..Len(runs) |-> Strip(runs[k], {" ", ","})]
  IN SelectSeq(stripped, LAMBDA x : x # <<>>)

\* the fragments of one name: the name and every run of 2 or 3 consecutive
\* parts joined by a space, of length >= 6
NameFragments(name) ==
  LET parts == NameParts(name)
      Windows(size) == { Join(SubSeq(parts, i, i + size - 1), " ") :
                           i \in 1..(Len(parts) - size + 1) }
  IN {name} \cup { f \in Windows(2) \cup Windows(3) : Len(f) >= 6 }

\* the set frags of build_contractor_fragments
FragmentSet(names) ==
  UNION { NameFragments(n) : n \in names \ {<<>>} } \cup suffix_tokens

\* the lists sorted(frags, key=len, reverse=True) can return: the sort is
\* stable over the iteration order of a set of str, which the interpreter's
\* hash seed decides, so every order by non-increasing length is possible
RECURSIVE FragmentOrders(_)
FragmentOrders(frags) ==
  IF frags = {} THEN {<<>>}
  ELSE LET longest == Max({Len(x) : x \in frags})
       IN UNION { { <<x>> \o rest : rest \in FragmentOrders(frags \ {x}) } :
                  x \in {y \in frags : Len(y) = longest} }

\* re.sub(r"\b" + re.escape(frag) + r"\b", "", s)
\* the text from i up to the first match, then the text behind the match
RECURSIVE SubFragment(_, _, _)
SubFragment(s0, i0, frag0) ==
  The({ ( LET P == {p \in i..Len(s) : /\ MatchAt(s, p, frag)
                                     /\ WordBoundary(s, p)
                                     /\ WordBoundary(s, p + Len(frag))}
         IN IF P = {} THEN SubSeq(s, i, Len(s))
            ELSE SubSeq(s, i, Min(P) - 1) \o SubFragment(s, Min(P) + Len(frag), frag)
       ) : s \in {s0}, i \in {i0}, frag \in {frag0} })

\* for frag in contractor_frags: cleaned = re.sub(..., "", cleaned)
RECURSIVE StripFragments(_, _, _)
StripFragments(s0, frags0, k0) ==
  The({ ( IF k > Len(frags) THEN s
         ELSE StripFragments(SubFragment(s, 1, frags[k]), frags, k + 1)
       ) : s \in {s0}, frags \in {frags0}, k \in {k0} })

\* a parser without reference values
BlockReference_none(block) == <<None, None>>

\* the reference <<quantity, unit>> of a block: from its first engineer line
BlockReference(block0) ==
  The({ ( LET E == {k \in 1..Len(block) : IsEngineerLine(block[k])}
         IN IF E = {} THEN <<None, None>> ELSE parse_engineer_line(block[Min(E)])
       ) : block \in {block0} })

\* the description of an item: the header remainder and the cleaned block
\* lines that hold neither a "$" nor the engineer marker
RECURSIVE DescLines(_, _, _)
DescLines(block0, k0, frags0) ==
  The({ ( IF k > Len(block) THEN <<>>
         ELSE LET bl == block[k]
                  cleaned == normalize_ws(StripFragments(bl, frags, 1))
              IN IF Contains(bl, <<"$">>) \/ IsEngineerLine(bl) \/ cleaned = <<>>
                 THEN DescLines(block, k + 1, frags)
                 ELSE <<cleaned>> \o DescLines(block, k + 1, frags)
       ) : block \in {block0}, k \in {k0}, frags \in {frags0} })
BlockDescription(header_desc, block, frags) ==
  normalize_ws(Join((IF header_desc # <<>> THEN <<header_desc>> ELSE <<>>)
                      \o DescLines(block, 1, frags), " "))

\* monies[-2] / monies[-1] of a line, as floats
UnitPriceOf(bl) ==
  LET monies == MONEY_RE_findall(bl)
  IN IF Len(monies) >= 2 THEN money_to_float(monies[Len(monies) - 1]) ELSE None
AmountOf(bl) ==
  LET monies == MONEY_RE_findall(bl)
  IN IF Len(monies) >= 1 THEN money_to_float(monies[Len(monies)]) ELSE None

\* x if x is not None else y
Coalesce(x, y) == IF x # None THEN x ELSE y

\* the record of an Engineer's Estimate line of a block
EngineerRecord(bl, pageno, project_name, schedule, option, item, ref) ==
  LET q2u2 == parse_engineer_line(bl)
  IN [ pdf_page |-> pageno,
       project_name |-> project_name,
       schedule |-> schedule,
       option |-> option,
       line_item_no |-> item[1],
       pay_item_no |-> item[2],
       description |-> item[3],
       quantity |-> Coalesce(q2u2[1], ref[1]),
       unit |-> Coalesce(q2u2[2], ref[2]),
       contractor |-> <<"E","n","g","i","n","e","e","r","'","s"," ","E","s","t","i","m","a","t","e">>,
       unit_price |-> UnitPriceOf(bl),
       amount |-> AmountOf(bl),
       is_engineers_estimate |-> 1 ]

\* a parser without name-suffix continuation
SuffixFollows_never(block, j) == FALSE

\* whether the line after a money row is consumed as a name suffix
SuffixFollows(block, j) ==
  /\ j + 1 <= Len(block)
  /\ ~MONEY_RE_search(block[j + 1])
  /\ looks_like_suffix(block[j + 1])

\* a parser that never falls back to the buffered fragments
ContractorName_prefix(block, j, name_parts) ==
  LET prefix == Strip(BeforeDollar(block[j]), {" ", ","})
  IN IF SuffixFollows(block, j)
     THEN Strip(prefix \o <<" ">> \o block[j + 1], {" ", ","})
     ELSE prefix

\* the contractor name of a money row
ContractorName(block, j, name_parts) ==
  LET prefix == Strip(BeforeDollar(block[j]), {" ", ","})
      name == IF prefix # <<>> THEN prefix
              ELSE Strip(Join(name_parts, " "), {" ", ","})
  IN IF SuffixFollows(block, j)
     THEN Strip(name \o <<" ">> \o block[j + 1], {" ", ","})
     ELSE name

\* the record of a contractor (money) row of a block
ContractorRecord(block, j, name_parts, pageno, project_name, schedule, option, item, ref) ==
  LET bl == block[j]
      q2u2 == QtyUnitPair(bl)
  IN [ pdf_page |-> pageno,
       project_name |-> project_name,
       schedule |-> schedule,
       option |-> option,
       line_item_no |-> item[1],
       pay_item_no |-> item[2],
       description |-> item[3],
       quantity |-> Coalesce(q2u2[1], ref[1]),
       unit |-> Coalesce(q2u2[2], ref[2]),
       contractor |-> ContractorName(block, j, name_parts),
       unit_price |-> UnitPriceOf(bl),
       amount |-> AmountOf(bl),
       is_engineers_estimate |-> 0 ]

\* a parser that buffers every line without money
IsNameFragment_any(bl, frags) == TRUE

\* whether a line without money is buffered as a contractor-name fragment
IsNameFragment(bl, frags) ==
  /\ bl # <<>>
  /\ ~StartsWith(ToLower(bl), <<"s","c","h","e","d","u","l","e",":">>)
  /\ ~StartsWith(ToLower(bl), <<"l","i","n","e"," ","i","t","e","m">>)
  /\ ~StartsWith(ToLower(bl), <<"p","a","y"," ","i","t","e","m">>)
  /\ \/ \E k \in 1..Len(frags) : Contains(bl, frags[k])
     \/ looks_like_suffix(bl)

\* lines = [normalize_ws(x) for x in page.splitlines() if normalize_ws(x)]
PageLines(v0, page0) ==
  The({ ( LET raw == splitlines(page)
             norm == [k \in 1..Len(raw) |-> NormWs(v, raw[k])]
         IN SelectSeq(norm, LAMBDA x : x # <<>>)
       ) : v \in {v0}, page \in {page0} })

\* schedule / option of a page in the text strategy (both parsers)
PageScheduleText(lines) == LastTag(lines, <<"S","c","h","e","d","u","l","e",":">>, FALSE, FALSE)
PageOptionText(lines) == LastTag(lines, <<"O","p","t","i","o","n",":">>, FALSE, TRUE)


----------------------------------------------------------------------------
(* State.                                                                   *)

VARIABLES
  version,            \* 1: parser_v1.py, 2: parser_v2.py
  project_name,       \* meta["project_name"]
  \* parse_line_items_tables
  tb_pc,              \* "page", "table", "row", "done"
  tb_pages,           \* the pages read so far: [text, tables]
  tb_schedule,        \* schedule of the current page
  tb_option,          \* option of the current page
  last_schedule,
  tb_rows,            \* rows_iter of the current table
  tb_ridx,            \* index of the next row of rows_iter
  current_line_item,
  current_pay_item,
  current_desc,
  out_tables,         \* out
  \* parse_line_items_text
  tx_pc,              \* "page", "seek", "accum", "rows", "done"
  pages,              \* the page texts of the document
  contractor_frags,
  tx_pageno,
  tx_lines,
  tx_schedule,
  tx_option,
  tx_idx,
  tx_item,            \* <<line_item_no, pay_item_no, description>>
  tx_block,
  tx_ref,             \* <<quantity, unit>> of the block
  tx_j,
  name_parts,
  out_text,           \* out
  \* parse_pdf: the reconciliation of the two strategies
  rc_pc,              \* "start", "index", "fill", "done"
  tables_in,          \* what parse_line_items_tables returned (kept for reference)
  items_text,         \* what parse_line_items_text returns
  items,              \* the list parse_pdf writes as line items
  index,              \* the dict of _merge_qty_unit_from_text
  rc_k,               \* loop index of _merge_qty_unit_from_text
  \* parse_bid_amounts: the de-duplication of the candidate rows
  bd_pc,              \* "dedup", "done"
  bid_rows,          \* rows
  seen,
  dedup,
  bd_k,               \* index of the next row
  \* main: the batch loop
  mn_pc,              \* "loop", "decoded", "aborted", "done"
  pdfs,               \* the sorted list of input documents
  mn_k,               \* index of the current document
  written,            \* the output files written so far
  \* a pool of workers, each running parse_pdf on its own document
  wk_doc,
  wk_pc,
  wk_page,
  wk_last,            \* last_schedule, per call frame
  wk_out,
  wk_seen,            \* seen, per call frame
  wk_dedup,
  \* a call of money_to_float or qty_to_float
  tk_pc,              \* "call", "money", "qty"
  tk_x,               \* the argument
  tk_out,             \* the value returned
  \* a call of build_contractor_fragments
  fr_pc,
  fr_names,
  fr_out,
  \* a call of parse_metadata
  md_pc,
  md_text,
  md_meta,
  \* parser_v1, parse_line_items_text: contractor_set = set(contractors)
  contractor_set,
  \* parse_bid_amounts: pages, page counter, lines of the page, tags, idx
  bs_pages,
  bs_i,
  bs_lines,
  bs_schedule,
  bs_option,
  bs_idx

tbVars == << tb_pc, tb_pages, tb_schedule, tb_option, last_schedule, tb_rows,
             tb_ridx, current_line_item, current_pay_item, current_desc,
             out_tables >>
txVars == << tx_pc, pages, contractor_frags, tx_pageno, tx_lines, tx_schedule,
             tx_option, tx_idx, tx_item, tx_block, tx_ref, tx_j, name_parts,
             out_text >>
rcVars == << rc_pc, tables_in, items_text, items, index, rc_k >>
bdVars == << bd_pc, bid_rows, seen, dedup, bd_k >>
mnVars == << mn_pc, pdfs, mn_k, written >>
wkVars == << wk_doc, wk_pc, wk_page, wk_last, wk_out, wk_seen, wk_dedup >>
tkVars == << tk_pc, tk_x, tk_out >>
frVars == << fr_pc, fr_names, fr_out >>
mdVars == << md_pc, md_text, md_meta >>
t1Vars == << contractor_set >>
bsVars == << bs_pages, bs_i, bs_lines, bs_schedule, bs_option, bs_idx >>
cfgVars == << version, project_name >>
vars == << cfgVars, tbVars, txVars, rcVars, bdVars, mnVars, wkVars, tkVars, frVars, mdVars, t1Vars, bsVars >>

\* the variables of the other components
OutsideTables == << cfgVars, txVars, rcVars, bdVars, mnVars, wkVars, tkVars, frVars, mdVars, t1Vars, bsVars >>
OutsideText == << cfgVars, tbVars, rcVars, bdVars, mnVars, wkVars, tkVars, frVars, mdVars, t1Vars, bsVars >>
OutsideReconcile == << cfgVars, tbVars, txVars, bdVars, mnVars, wkVars, tkVars, frVars, mdVars, t1Vars, bsVars >>
OutsideDedup == << cfgVars, tbVars, txVars, rcVars, mnVars, wkVars, tkVars, frVars, mdVars, t1Vars, bsVars >>
OutsideMain == << cfgVars, tbVars, txVars, rcVars, bdVars, wkVars, tkVars, frVars, mdVars, t1Vars, bsVars >>
OutsideWorkers == << cfgVars, tbVars, txVars, rcVars, bdVars, mnVars, tkVars, frVars, mdVars, t1Vars, bsVars >>
OutsideTokens == << cfgVars, tbVars, txVars, rcVars, bdVars, mnVars, wkVars, frVars, mdVars, t1Vars, bsVars >>
OutsideFragments == << cfgVars, tbVars, txVars, rcVars, bdVars, mnVars, wkVars, tkVars, mdVars, t1Vars, bsVars >>
OutsideMetadata == << cfgVars, tbVars, txVars, rcVars, bdVars, mnVars, wkVars, tkVars, frVars, t1Vars, bsVars >>
OutsideTextV1 == << cfgVars, tbVars, txVars, rcVars, bdVars, mnVars, wkVars, tkVars, frVars, mdVars, bsVars >>
\* the extraction of parse_bid_amounts fills the rows its de-duplication reads
OutsideBids == << cfgVars, tbVars, txVars, rcVars, mnVars, wkVars, tkVars, frVars, mdVars, t1Vars >>

----------------------------------------------------------------------------
(* parse_line_items_tables as a state machine.  The decoder hands over the  *)
(* pages, and the tables of a page, one after the other.                    *)

TablesInit ==
  /\ tb_pc = "page"
  /\ tb_pages = <<>>
  /\ tb_schedule = None
  /\ tb_option = None
  /\ last_schedule = None
  /\ tb_rows = <<>>
  /\ tb_ridx = 0
  /\ current_line_item = None
  /\ current_pay_item = None
  /\ current_desc = None
  /\ out_tables = <<>>

TablesIdle ==
  /\ tb_pc = "idle"
  /\ tb_pages = <<>>
  /\ tb_schedule = None
  /\ tb_option = None
  /\ last_schedule = None
  /\ tb_rows = <<>>
  /\ tb_ridx = 0
  /\ current_line_item = None
  /\ current_pay_item = None
  /\ current_desc = None
  /\ out_tables = <<>>

\* for pageno, page in enumerate(pdf.pages, start=1): the tags of the page
TablesPage(texts, maxPages) ==
  /\ tb_pc = "page"
  /\ Len(tb_pages) < maxPages
  /\ \E text \in texts :
       LET schedule == PageScheduleTables(version, text)
       IN /\ tb_pages' = Append(tb_pages, [text |-> text, tables |-> <<>>])
          /\ tb_schedule' = schedule
          /\ tb_option' = PageOptionTables(version, text)
          /\ last_schedule' = IF Truthy(schedule) THEN schedule ELSE last_schedule
  /\ tb_pc' = "table"
  /\ UNCHANGED << tb_rows, tb_ridx, current_line_item, current_pay_item,
                  current_desc, out_tables >>
  /\ UNCHANGED OutsideTables

\* the number of tables of the pages read so far
RECURSIVE TablesCount(_)
TablesCount(pgs) ==
  IF pgs = <<>> THEN 0 ELSE Len(Head(pgs).tables) + TablesCount(Tail(pgs))

\* for table in tables: the header test and the signature test
TablesTable(tables, maxTables) ==
  /\ tb_pc = "table"
  /\ TablesCount(tb_pages) < maxTables
  /\ \E table \in tables :
       LET accepted == TableAccepted(version, table)
           rows == IF accepted THEN rows_iter(version, table) ELSE <<>>
           \* parser_v2 resets the carry-forward values before the signature
           \* test, parser_v1 after it
           reset == accepted \/ (version = 2 /\ table # <<>> /\ table[1] # <<>>)
       IN /\ tb_pages' = [tb_pages EXCEPT ![Len(tb_pages)].tables = Append(@, table)]
          /\ tb_rows' = rows
          /\ tb_ridx' = 1
          /\ tb_pc' = IF rows # <<>> THEN "row" ELSE "table"
          /\ current_line_item' = IF reset THEN None ELSE current_line_item
          /\ current_pay_item' = IF reset THEN None ELSE current_pay_item
          /\ current_desc' = IF reset THEN None ELSE current_desc
  /\ UNCHANGED << tb_schedule, tb_option, last_schedule, out_tables >>
  /\ UNCHANGED OutsideTables

\* for row in rows_iter
TablesRow ==
  /\ tb_pc = "row"
  /\ tb_ridx <= Len(tb_rows)
  /\ LET step == TableRowStep(version, tb_rows[tb_ridx], Len(tb_pages), project_name,
                              tb_schedule, tb_option, last_schedule,
                              <<current_line_item, current_pay_item, current_desc>>)
     IN /\ out_tables' = out_tables \o step.emit
        /\ current_line_item' = step.cur[1]
        /\ current_pay_item' = step.cur[2]
        /\ current_desc' = step.cur[3]
  /\ tb_ridx' = tb_ridx + 1
  /\ tb_pc' = IF tb_ridx = Len(tb_rows) THEN "table" ELSE "row"
  /\ UNCHANGED << tb_pages, tb_schedule, tb_option, last_schedule, tb_rows >>
  /\ UNCHANGED OutsideTables

\* the page has no further table
TablesEndPage ==
  /\ tb_pc = "table"
  /\ tb_pc' = "page"
  /\ UNCHANGED << tb_pages, tb_schedule, tb_option, last_schedule, tb_rows,
                  tb_ridx, current_line_item, current_pay_item, current_desc,
                  out_tables >>
  /\ UNCHANGED OutsideTables

\* the document has no further page: return out
TablesReturn ==
  /\ tb_pc = "page"
  /\ tb_pc' = "done"
  /\ UNCHANGED << tb_pages, tb_schedule, tb_option, last_schedule, tb_rows,
                  tb_ridx, current_line_item, current_pay_item, current_desc,
                  out_tables >>
  /\ UNCHANGED OutsideTables


----------------------------------------------------------------------------
(* parse_line_items_text (parser_v2) as a state machine over the pages of   *)
(* one document.                                                            *)

\* all_text = "\n".join(pages)
AllText(pp) == Join(pp, "\n")

TextInit(docs) ==
  /\ pages \in docs
  /\ contractor_frags \in
       FragmentOrders(FragmentSet(extract_contractors(version, AllText(pages))))
  /\ tx_pc = "page"
  /\ tx_pageno = 0
  /\ tx_lines = <<>>
  /\ tx_schedule = None
  /\ tx_option = None
  /\ tx_idx = 1
  /\ tx_item = <<None, None, None>>
  /\ tx_block = <<>>
  /\ tx_ref = <<None, None>>
  /\ tx_j = 1
  /\ name_parts = <<>>
  /\ out_text = <<>>

TextIdle ==
  /\ pages = <<>>
  /\ contractor_frags = <<>>
  /\ tx_pc = "idle"
  /\ tx_pageno = 0
  /\ tx_lines = <<>>
  /\ tx_schedule = None
  /\ tx_option = None
  /\ tx_idx = 1
  /\ tx_item = <<None, None, None>>
  /\ tx_block = <<>>
  /\ tx_ref = <<None, None>>
  /\ tx_j = 1
  /\ name_parts = <<>>
  /\ out_text = <<>>

\* a parser that goes on with the block the previous page ended in
ScanStart_resume(item) == IF item[1] # None THEN "accum" ELSE "seek"

\* idx = 0: the scan of a page starts looking for an item, whatever the
\* previous page ended in
ScanStart(item) == "seek"

\* a scan that stays on the line it has read
NextLine_same(idx) == idx

\* idx += 1
NextLine(idx) == idx + 1

\* for pageno, page in enumerate(pages, start=1): lines and the page's tags
TextPage ==
  /\ tx_pc = "page"
  /\ tx_pageno < Len(pages)
  /\ LET lines == PageLines(version, pages[tx_pageno + 1])
     IN /\ tx_lines' = lines
        /\ tx_schedule' = PageScheduleText(lines)
        /\ tx_option' = PageOptionText(lines)
  /\ tx_pageno' = tx_pageno + 1
  /\ tx_idx' = 1
  /\ tx_pc' = ScanStart(tx_item)
  /\ UNCHANGED << pages, contractor_frags, tx_item, tx_block, tx_ref, tx_j,
                  name_parts, out_text >>
  /\ UNCHANGED OutsideText

\* while idx < len(lines): start = detect_item_start(lines[idx])
TextSeek ==
  /\ tx_pc = "seek"
  /\ tx_idx <= Len(tx_lines)
  /\ LET start == detect_item_start(tx_lines[tx_idx])
     IN IF start = None
        THEN /\ tx_pc' = "seek"
             /\ UNCHANGED << tx_item, tx_block >>
        ELSE /\ tx_pc' = "accum"
             /\ tx_item' = start
             /\ tx_block' = <<>>
  /\ tx_idx' = NextLine(tx_idx)
  /\ UNCHANGED << pages, contractor_frags, tx_pageno, tx_lines, tx_schedule,
                  tx_option, tx_ref, tx_j, name_parts, out_text >>
  /\ UNCHANGED OutsideText

\* while idx < len(lines) and not detect_item_start(lines[idx]): block.append
TextAccum ==
  /\ tx_pc = "accum"
  /\ tx_idx <= Len(tx_lines)
  /\ detect_item_start(tx_lines[tx_idx]) = None
  /\ tx_block' = Append(tx_block, tx_lines[tx_idx])
  /\ tx_idx' = NextLine(tx_idx)
  /\ UNCHANGED << tx_pc, pages, contractor_frags, tx_pageno, tx_lines,
                  tx_schedule, tx_option, tx_item, tx_ref, tx_j, name_parts,
                  out_text >>
  /\ UNCHANGED OutsideText

\* the block is complete: reference quantity / unit, rebuilt description
TextBlock ==
  /\ tx_pc = "accum"
  /\ IF tx_idx > Len(tx_lines) THEN TRUE
     ELSE detect_item_start(tx_lines[tx_idx]) # None
  /\ tx_ref' = BlockReference(tx_block)
  /\ tx_item' = << tx_item[1], tx_item[2],
                   BlockDescription(tx_item[3], tx_block, contractor_frags) >>
  /\ name_parts' = <<>>
  /\ tx_j' = 1
  /\ tx_pc' = "rows"
  /\ UNCHANGED << pages, contractor_frags, tx_pageno, tx_lines, tx_schedule,
                  tx_option, tx_idx, tx_block, out_text >>
  /\ UNCHANGED OutsideText

\* while j < len(block): one row of the block
TextRow ==
  /\ tx_pc = "rows"
  /\ tx_j <= Len(tx_block)
  /\ LET bl == tx_block[tx_j]
     IN IF IsEngineerLine(bl)
        THEN /\ out_text' = Append(out_text,
                  EngineerRecord(bl, tx_pageno, project_name, tx_schedule,
                                 tx_option, tx_item, tx_ref))
             /\ tx_j' = tx_j + 1
             /\ UNCHANGED name_parts
        ELSE IF MONEY_RE_findall(bl) # <<>>
        THEN LET rec == ContractorRecord(tx_block, tx_j, name_parts, tx_pageno,
                                         project_name, tx_schedule, tx_option,
                                         tx_item, tx_ref)
             IN /\ out_text' = IF rec.contractor # <<>>
                               THEN Append(out_text, rec) ELSE out_text
                /\ tx_j' = IF SuffixFollows(tx_block, tx_j) THEN tx_j + 2 ELSE tx_j + 1
                /\ name_parts' = <<>>
        ELSE /\ name_parts' = IF IsNameFragment(bl, contractor_frags)
                              THEN Append(name_parts, bl) ELSE name_parts
             /\ tx_j' = tx_j + 1
             /\ UNCHANGED out_text
  /\ UNCHANGED << tx_pc, pages, contractor_frags, tx_pageno, tx_lines,
                  tx_schedule, tx_option, tx_idx, tx_item, tx_block, tx_ref >>
  /\ UNCHANGED OutsideText

\* the rows of the block are parsed: back to the item scan
TextEndBlock ==
  /\ tx_pc = "rows"
  /\ tx_j > Len(tx_block)
  /\ tx_pc' = "seek"
  /\ UNCHANGED << pages, contractor_frags, tx_pageno, tx_lines, tx_schedule,
                  tx_option, tx_idx, tx_item, tx_block, tx_ref, tx_j,
                  name_parts, out_text >>
  /\ UNCHANGED OutsideText

\* idx reached len(lines): next page
TextEndPage ==
  /\ tx_pc = "seek"
  /\ tx_idx > Len(tx_lines)
  /\ tx_pc' = "page"
  /\ UNCHANGED << pages, contractor_frags, tx_pageno, tx_lines, tx_schedule,
                  tx_option, tx_idx, tx_item, tx_block, tx_ref, tx_j,
                  name_parts, out_text >>
  /\ UNCHANGED OutsideText

\* return out
TextReturn ==
  /\ tx_pc = "page"
  /\ tx_pageno = Len(pages)
  /\ tx_pc' = "done"
  /\ UNCHANGED << pages, contractor_frags, tx_pageno, tx_lines, tx_schedule,
                  tx_option, tx_idx, tx_item, tx_block, tx_ref, tx_j,
                  name_parts, out_text >>
  /\ UNCHANGED OutsideText

TextNext ==
  \/ TextPage \/ TextSeek \/ TextAccum \/ TextBlock \/ TextRow
  \/ TextEndBlock \/ TextEndPage \/ TextReturn


----------------------------------------------------------------------------
(* Text strategy of parser_v1: the same scan of pages and blocks; the      *)
(* header remainder is the description, and a contractor row is a block    *)
(* line that starts with a name of the registry.                            *)

TextV1Idle == contractor_set = {}

\* out = []; contractor_set = set(contractors)
TextV1Init(docs) ==
  /\ pages \in docs
  /\ contractor_set = extract_contractors(version, AllText(pages))
  /\ contractor_frags = <<>>
  /\ tx_pc = "page"
  /\ tx_pageno = 0
  /\ tx_lines = <<>>
  /\ tx_schedule = None
  /\ tx_option = None
  /\ tx_idx = 1
  /\ tx_item = <<None, None, None>>
  /\ tx_block = <<>>
  /\ tx_ref = <<None, None>>
  /\ tx_j = 1
  /\ name_parts = <<>>
  /\ out_text = <<>>

\* the names c of contractor_set with bl.startswith(c)
PrefixNames(bl) == { c \in contractor_set : StartsWith(bl, c) }

\* for c in contractor_set: if bl.startswith(c): name_match = c; break
\* A set of str is iterated in the order of the hashes of its members, and
\* the hash of a str changes from one interpreter process to the next: the
\* loop may meet any of the names that match first.
NameMatches(bl) == IF PrefixNames(bl) = {} THEN {None} ELSE PrefixNames(bl)

\* the record of an estimate row: quantity and unit of the block
EngineerRecordV1(bl, pageno, project, schedule, option, item, ref) ==
  [ EngineerRecord(bl, pageno, project, schedule, option, item, ref)
      EXCEPT !.quantity = ref[1], !.unit = ref[2] ]

\* the record of a contractor row
ContractorRecordV1(bl, name_match, pageno, project, schedule, option, item, ref) ==
  LET q2u2 == QtyUnitPair(bl)
  IN [ pdf_page |-> pageno,
       project_name |-> project,
       schedule |-> schedule,
       option |-> option,
       line_item_no |-> item[1],
       pay_item_no |-> item[2],
       description |-> item[3],
       quantity |-> Coalesce(q2u2[1], ref[1]),
       unit |-> Coalesce(q2u2[2], ref[2]),
       contractor |-> name_match,
       unit_price |-> UnitPriceOf(bl),
       amount |-> AmountOf(bl),
       is_engineers_estimate |-> 0 ]

\* out after the row bl when the loop over contractor_set ended on name_match
\* (if not name_match: continue)
AfterRowV1(bl, name_match) ==
  IF name_match = None \/ name_match = <<>> THEN out_text
  ELSE Append(out_text,
         ContractorRecordV1(bl, name_match, tx_pageno, project_name,
                            tx_schedule, tx_option, tx_item, tx_ref))

\* the block is complete: reference quantity / unit from the first estimate line
TextBlockV1 ==
  /\ tx_pc = "accum"
  /\ IF tx_idx > Len(tx_lines) THEN TRUE
     ELSE detect_item_start(tx_lines[tx_idx]) # None
  /\ tx_ref' = BlockReference(tx_block)
  /\ tx_j' = 1
  /\ tx_pc' = "rows"
  /\ UNCHANGED << pages, contractor_frags, tx_pageno, tx_lines, tx_schedule,
                  tx_option, tx_idx, tx_item, tx_block, name_parts, out_text >>
  /\ UNCHANGED OutsideText

\* for bl in block: one row of the block
TextRowV1 ==
  /\ tx_pc = "rows"
  /\ tx_j <= Len(tx_block)
  /\ LET bl == tx_block[tx_j]
     IN IF IsEngineerLine(bl)
        THEN out_text' = Append(out_text,
               EngineerRecordV1(bl, tx_pageno, project_name, tx_schedule,
                                tx_option, tx_item, tx_ref))
        ELSE \E name_match \in NameMatches(bl) :
               out_text' = AfterRowV1(bl, name_match)
  /\ tx_j' = tx_j + 1
  /\ UNCHANGED << tx_pc, pages, contractor_frags, tx_pageno, tx_lines,
                  tx_schedule, tx_option, tx_idx, tx_item, tx_block, tx_ref,
                  name_parts >>
  /\ UNCHANGED OutsideText

TextNextV1 ==
  \/ TextPage \/ TextSeek \/ TextAccum \/ TextBlockV1 \/ TextRowV1
  \/ TextEndBlock \/ TextEndPage \/ TextReturn


----------------------------------------------------------------------------
(* parse_pdf: choice between the two strategies, and in parser_v1 the       *)
(* back-fill of quantity / unit (_merge_qty_unit_from_text).                *)

\* the key of the dict index
MergeKey(it) == <<it.schedule, it.line_item_no, it.pay_item_no, it.contractor>>

\* index[key] = it
IndexPut(idx, it) == (MergeKey(it) :> it) @@ idx

\* the table record after the back-fill from src
Backfill(it, src) ==
  [it EXCEPT !.quantity = IF it.quantity = None THEN src.quantity ELSE @,
             !.unit = IF it.unit = None THEN src.unit ELSE @]

\* one iteration of "for it in items_table"
MergeOne(it, idx) ==
  IF (it.quantity = None \/ it.unit = None) /\ MergeKey(it) \in DOMAIN idx
  THEN Backfill(it, idx[MergeKey(it)])
  ELSE it

EmptyIndex == [k \in {} |-> <<>>]

ReconcileInit(tableLists, textLists) ==
  /\ rc_pc = "start"
  /\ tables_in \in tableLists
  /\ items_text \in textLists
  /\ items = <<>>
  /\ index = EmptyIndex
  /\ rc_k = 1

ReconcileIdle ==
  /\ rc_pc = "idle"
  /\ tables_in = <<>>
  /\ items_text = <<>>
  /\ items = <<>>
  /\ index = EmptyIndex
  /\ rc_k = 1

\* a parser that adds the text records to the table records
SelectItems_both(tables, text) == tables \o text

\* items = tables; if not items: items = <the text-strategy records>
SelectItems(tables, text) == IF tables # <<>> THEN tables ELSE text

\* parser_v1:  items = tables; if items: items = merge(items, items_text)
\*             else: items = items_text
\* parser_v2:  items = tables; if not items: items = parse_line_items_text(...)
ReconcileChoose ==
  /\ rc_pc = "start"
  /\ items' = SelectItems(tables_in, items_text)
  /\ rc_pc' = IF tables_in # <<>> /\ version = 1 THEN "index" ELSE "done"
  /\ UNCHANGED << tables_in, items_text, index, rc_k >>
  /\ UNCHANGED OutsideReconcile

\* for it in items_text: index[key] = it
ReconcileIndex ==
  /\ rc_pc = "index"
  /\ IF rc_k <= Len(items_text)
     THEN /\ index' = IndexPut(index, items_text[rc_k])
          /\ rc_k' = rc_k + 1
          /\ UNCHANGED rc_pc
     ELSE /\ rc_pc' = "fill"
          /\ rc_k' = 1
          /\ UNCHANGED index
  /\ UNCHANGED << tables_in, items_text, items >>
  /\ UNCHANGED OutsideReconcile

\* for it in items_table: fill the missing quantity / unit in place
ReconcileFill ==
  /\ rc_pc = "fill"
  /\ IF rc_k <= Len(items)
     THEN /\ items' = [items EXCEPT ![rc_k] = MergeOne(@, index)]
          /\ rc_k' = rc_k + 1
          /\ UNCHANGED rc_pc
     ELSE /\ rc_pc' = "done"
          /\ UNCHANGED << items, rc_k >>
  /\ UNCHANGED << tables_in, items_text, index >>
  /\ UNCHANGED OutsideReconcile

ReconcileNext == ReconcileChoose \/ ReconcileIndex \/ ReconcileFill

----------------------------------------------------------------------------
(* parse_bid_amounts: de-duplication of the candidate rows.                 *)

\* a key that tells the pages apart
BidKey_page(r) ==
  <<r.pdf_page, r.project_name, r.schedule, r.option, r.contractor, r.bid_amount>>

\* key = (project_name, schedule, option, contractor, bid_amount)
BidKey(r) == <<r.project_name, r.schedule, r.option, r.contractor, r.bid_amount>>

DedupInit(rowLists) ==
  /\ bd_pc = "dedup"
  /\ bid_rows \in rowLists
  /\ seen = {}
  /\ dedup = <<>>
  /\ bd_k = 1

DedupIdle ==
  /\ bd_pc = "idle"
  /\ bid_rows = <<>>
  /\ seen = {}
  /\ dedup = <<>>
  /\ bd_k = 1

\* for r in rows: if key not in seen: seen.add(key); dedup.append(r)
DedupStep ==
  /\ bd_pc = "dedup"
  /\ bd_k <= Len(bid_rows)
  /\ IF BidKey(bid_rows[bd_k]) \notin seen
     THEN /\ seen' = seen \cup {BidKey(bid_rows[bd_k])}
          /\ dedup' = Append(dedup, bid_rows[bd_k])
     ELSE UNCHANGED << seen, dedup >>
  /\ bd_k' = bd_k + 1
  /\ UNCHANGED << bd_pc, bid_rows >>
  /\ UNCHANGED OutsideDedup

\* return dedup
DedupReturn ==
  /\ bd_pc = "dedup"
  /\ bd_k > Len(bid_rows)
  /\ bd_pc' = "done"
  /\ UNCHANGED << bid_rows, seen, dedup, bd_k >>
  /\ UNCHANGED OutsideDedup

DedupNext == DedupStep \/ DedupReturn

----------------------------------------------------------------------------
(* parse_bid_amounts: the extraction of the candidate rows, page by page.   *)
(* Each summary page is read twice: line by line, then as one flattened    *)
(* string; the rows then go through the de-duplication above.               *)

BidsIdle ==
  /\ bs_pages = <<>>
  /\ bs_i = 0
  /\ bs_lines = <<>>
  /\ bs_schedule = None
  /\ bs_option = None
  /\ bs_idx = 1

\* rows = []
BidsInit(docs) ==
  /\ bs_pages \in docs
  /\ bs_i = 0
  /\ bs_lines = <<>>
  /\ bs_schedule = None
  /\ bs_option = None
  /\ bs_idx = 1
  /\ bd_pc = "page"
  /\ bid_rows = <<>>
  /\ seen = {}
  /\ dedup = <<>>
  /\ bd_k = 1

\* a parser that asks only for a present amount
Nonzero_any(amt) == amt # None

\* if amt: / if not amt: a float that is present and not 0.0
Nonzero(amt) == amt # None /\ amt # <<0, 0>>

\* the schedule left by the loop over the lines: the 'Schedule:' tag of a
\* line, then "A" when the line holds "Base Schedule" and a word A
RECURSIVE BidSchedule(_)
BidSchedule(lines) ==
  IF lines = <<>> THEN None
  ELSE LET ln == lines[Len(lines)]
       IN IF /\ Contains(ln, <<"B","a","s","e"," ","S","c","h","e","d","u","l","e">>)
             /\ \E p \in 1..Len(ln) :
                  ln[p] = "A" /\ WordBoundary(ln, p) /\ WordBoundary(ln, p + 1)
          THEN <<"A">>
          ELSE IF TagSearch(ln, <<"S","c","h","e","d","u","l","e",":">>, FALSE, FALSE) # None
          THEN TagSearch(ln, <<"S","c","h","e","d","u","l","e",":">>, FALSE, FALSE)
          ELSE BidSchedule(SubSeq(lines, 1, Len(lines) - 1))

\* the two "continue" of the page loop: a line-item page, or no summary page
SkipsPage(page) ==
  \/ Contains(page, <<"L","i","n","e"," ","I","t","e","m">>)
  \/ Contains(page, <<"L","i","n","e","I","t","e","m">>)
  \/ Contains(page, <<"P","a","y"," ","I","t","e","m"," ","N","o",".">>)
  \/ ~ \/ Contains(page, <<"C","o","n","t","r","a","c","t","o","r"," ","R","e","s","p","o","n","s","i","v","e","?">>)
       \/ Contains(page, <<"T","o","t","a","l"," ","B","a","s","e"," ","S","c","h","e","d","u","l","e">>)
       \/ TagSearch(page, <<"O","p","t","i","o","n",":">>, FALSE, FALSE) # None

\* \$\s*[0-9][0-9,]*\.[0-9]{2} matched at index p: the end + 1, or 0
BidMoneyEnd(s, p) ==
  LET q == SkipWhile(s, p + 1, Whitespace)
      r == SkipWhile(s, q, Digits \cup {","})
  IN IF /\ p >= 1 /\ p <= Len(s) /\ s[p] = "$"
        /\ q <= Len(s) /\ s[q] \in Digits
        /\ r <= Len(s) /\ s[r] = "." /\ AllDigits(s, r + 1, 2)
     THEN r + 3 ELSE 0

\* \$[0-9,]+\.[0-9]{2} matched at index p: the end + 1, or 0
FlatMoneyEnd(s, p) ==
  LET r == SkipWhile(s, p + 1, Digits \cup {","})
  IN IF /\ p >= 1 /\ p <= Len(s) /\ s[p] = "$"
        /\ r > p + 1
        /\ r <= Len(s) /\ s[r] = "." /\ AllDigits(s, r + 1, 2)
     THEN r + 3 ELSE 0

suffixes == { <<"C","o","r","p",".">>, <<"I","n","c",".">>, <<"L","L","C">>, <<"C","o",".",","," ","L","L","C">>, <<"I","n","d","u","s","t","r","i","e","s",","," ","I","n","c",".">> }

\* candidate of the line lines[idx], or None
LineCandidate(lines, idx) ==
  LET ln == lines[idx]
      P == {p \in 1..Len(ln) : BidMoneyEnd(ln, p) # 0}
      g1 == SubSeq(ln, 1, Min(P) - 1)
      g2 == SubSeq(ln, Min(P), BidMoneyEnd(ln, Min(P)) - 1)
      g3 == Strip(SubSeq(ln, BidMoneyEnd(ln, Min(P)), Len(ln)), Whitespace)
      suffix == IF idx + 2 <= Len(lines) /\ lines[idx + 2] \in suffixes
                THEN lines[idx + 2] ELSE <<>>
  IN IF Contains(ln, <<"$">>)
     THEN IF P # {} /\ Strip(g1, Whitespace) # <<>>
          THEN Strip(g1 \o <<" ">> \o g2 \o (IF g3 # <<>> THEN <<" ">> \o g3 ELSE <<>>),
                     Whitespace)
          ELSE None
     ELSE IF /\ idx + 1 <= Len(lines)
             /\ BidMoneyEnd(lines[idx + 1], 1) = Len(lines[idx + 1]) + 1
          THEN Strip(ln \o <<" ">> \o lines[idx + 1] \o <<" ">> \o suffix, Whitespace)
          ELSE None

\* the dict appended to rows
BidRecord(name, amt) ==
  [ pdf_page |-> bs_i,
    project_name |-> project_name,
    report_date |-> None,
    solicitation_no |-> None,
    schedule |-> bs_schedule,
    option |-> bs_option,
    contractor |-> IF IsEngineerLine(name) THEN <<"E","n","g","i","n","e","e","r","'","s"," ","E","s","t","i","m","a","t","e">> ELSE name,
    bid_amount |-> amt,
    is_engineers_estimate |-> IF IsEngineerLine(name) THEN 1 ELSE 0 ]

\* the rows a candidate adds: none or one
LineRows(candidate) ==
  LET P == {p \in 1..Len(candidate) : BidMoneyEnd(candidate, p) # 0}
      name == Strip(SubSeq(candidate, 1, Min(P) - 1), {" ", ","})
      amt == money_to_float(SubSeq(candidate, Min(P),
                                   BidMoneyEnd(candidate, Min(P)) - 1))
  IN IF ~Truthy(candidate) THEN <<>>
     ELSE IF P = {} THEN <<>>
     ELSE IF /\ Nonzero(amt)
             /\ \/ IsEngineerLine(name)
                \/ Len(name) >= 3 /\ ~StartsWith(name, <<"\\","d">>)
          THEN << BidRecord(name, amt) >>
          ELSE <<>>

\* page_norm: page.replace("\n", " "), then
\* re.sub(r"(\$[0-9,]+\.[0-9]{2})([A-Za-z])", r"\1 \2", page_norm):
\* a space goes in before every letter that stands right behind an amount
page_norm(page) ==
  LET s == [k \in 1..Len(page) |-> IF page[k] = "\n" THEN " " ELSE page[k]]
      E == { e \in 1..Len(s) :
               /\ s[e] \in Upper \cup Lower
               /\ \E p \in 1..e : FlatMoneyEnd(s, p) = e }
      At(j) == j + Cardinality({e \in E : e <= j})
  IN [ k \in 1..(Len(s) + Cardinality(E)) |->
         IF \E j \in 1..Len(s) : At(j) = k
         THEN s[CHOOSE j \in 1..Len(s) : At(j) = k]
         ELSE " " ]

\* ([A-Za-z'.,& ]{3,})\s*(\$[0-9,]+\.[0-9]{2}) matched at index p:
\* <<end of group 1 + 1, start of group 2, end of group 2 + 1>>, or zeros.
\* Group 1 is the whole run of its class: "$" is outside the class, so a
\* shorter group 1 leaves the same rest to match.
FlatAt(s, p) ==
  LET a == SkipWhile(s, p, Upper \cup Lower \cup {"'", ".", ",", "&", " "})
      d == SkipWhile(s, a, Whitespace)
  IN IF a - p >= 3 /\ FlatMoneyEnd(s, d) # 0
     THEN <<a, d, FlatMoneyEnd(s, d)>> ELSE <<0, 0, 0>>

\* for m in re.finditer(...\s*(suffix_re)?, page_norm): the rows of the
\* matches from index i on
RECURSIVE FlatRows(_, _)
FlatRows(s, i) ==
  LET P == {p \in i..Len(s) : FlatAt(s, p)[1] # 0}
      m == FlatAt(s, Min(P))
      w == SkipWhile(s, m[3], Whitespace)
      G == {x \in suffixes : MatchAt(s, w, x)}
      g3 == IF G = {} THEN <<>> ELSE CHOOSE x \in G : TRUE
      name == Strip(SubSeq(s, Min(P), m[1] - 1)
                      \o (IF g3 # <<>> THEN <<" ">> \o g3 ELSE <<>>), {" ", ","})
      amt == money_to_float(SubSeq(s, m[2], m[3] - 1))
      keep == /\ Nonzero(amt)
              /\ Len(name) >= 3
              /\ IsEngineerLine(name) \/ ~Contains(name, <<"E","s","t","i","m","a","t","e">>)
  IN IF P = {} THEN <<>>
     ELSE (IF keep THEN << BidRecord(name, amt) >> ELSE <<>>)
            \o FlatRows(s, w + Len(g3))

\* for i, page in enumerate(pages): lines, tags, and the two "continue"
BidPage ==
  /\ bd_pc = "page"
  /\ bs_i < Len(bs_pages)
  /\ bs_i' = bs_i + 1
  /\ bs_lines' = PageLines(2, bs_pages[bs_i + 1])
  /\ bs_schedule' = BidSchedule(PageLines(2, bs_pages[bs_i + 1]))
  /\ bs_option' = PageOptionText(PageLines(2, bs_pages[bs_i + 1]))
  /\ bs_idx' = 1
  /\ bd_pc' = IF SkipsPage(bs_pages[bs_i + 1]) THEN "page" ELSE "lines"
  /\ UNCHANGED << bs_pages, bid_rows, seen, dedup, bd_k >>
  /\ UNCHANGED OutsideBids

\* while idx < len(lines): the candidate of one line and its row
BidLine ==
  /\ bd_pc = "lines"
  /\ bs_idx <= Len(bs_lines)
  /\ bid_rows' = bid_rows \o LineRows(LineCandidate(bs_lines, bs_idx))
  /\ bs_idx' = bs_idx + 1
  /\ UNCHANGED << bd_pc, bs_pages, bs_i, bs_lines, bs_schedule, bs_option,
                  seen, dedup, bd_k >>
  /\ UNCHANGED OutsideBids

\* the additional pass over the flattened page
BidFlat ==
  /\ bd_pc = "lines"
  /\ bs_idx > Len(bs_lines)
  /\ bid_rows' = bid_rows \o FlatRows(page_norm(bs_pages[bs_i]), 1)
  /\ bd_pc' = "page"
  /\ UNCHANGED << bs_pages, bs_i, bs_lines, bs_schedule, bs_option, bs_idx,
                  seen, dedup, bd_k >>
  /\ UNCHANGED OutsideBids

\* the pages are read: seen = set(); dedup = []
BidRowsDone ==
  /\ bd_pc = "page"
  /\ bs_i = Len(bs_pages)
  /\ bd_pc' = "dedup"
  /\ seen' = {}
  /\ dedup' = <<>>
  /\ bd_k' = 1
  /\ UNCHANGED << bid_rows, bsVars >>
  /\ UNCHANGED OutsideBids

BidsNext ==
  \/ BidPage \/ BidLine \/ BidFlat \/ BidRowsDone \/ DedupStep \/ DedupReturn

\* the de-duplication loop as a function of the rows
RECURSIVE DedupOf(_, _, _)
DedupOf(rr, k, sn) ==
  IF k > Len(rr) THEN <<>>
  ELSE IF BidKey(rr[k]) \notin sn
       THEN <<rr[k]>> \o DedupOf(rr, k + 1, sn \cup {BidKey(rr[k])})
       ELSE DedupOf(rr, k + 1, sn)


----------------------------------------------------------------------------
(* main: the batch loop over the input documents.                           *)

\* os.path.basename
basename(path) ==
  LET P == {i \in 1..Len(path) : path[i] = "/"}
  IN IF P = {} THEN path ELSE SubSeq(path, Max(P) + 1, Len(path))

\* os.path.splitext(name)[0]: the extension starts at the last dot that
\* follows a character other than a dot
splitext_root(name) ==
  LET lead == SkipWhile(name, 1, {"."})
      P == {i \in (lead + 1)..Len(name) : name[i] = "."}
  IN IF P = {} THEN name ELSE SubSeq(name, 1, Max(P) - 1)

StemChars == Digits \cup Upper \cup Lower \cup {".", "_", "-"}

\* re.sub(r"[^A-Za-z0-9._-]+", "_", base)
RECURSIVE SubUnsafe(_, _)
SubUnsafe(s, i) ==
  IF i > Len(s) THEN <<>>
  ELSE IF s[i] \notin StemChars
       THEN <<"_">> \o SubUnsafe(s, SkipUntil(s, i, StemChars))
       ELSE <<s[i]>> \o SubUnsafe(s, i + 1)

\* safe_stem
safe_stem(path) == SubUnsafe(splitext_root(basename(path)), 1)

\* the two files parse_pdf writes (relative to out_dir)
bids_csv(path) == safe_stem(path) \o <<"_","b","i","d","s","_","s","u","m","m","a","r","y",".","c","s","v">>
items_csv(path) == safe_stem(path) \o <<"_","l","i","n","e","_","i","t","e","m","s",".","c","s","v">>

MainInit(batches) ==
  /\ mn_pc = "loop"
  /\ pdfs \in batches
  /\ mn_k = 1
  /\ written = {}

MainIdle ==
  /\ mn_pc = "idle"
  /\ pdfs = <<>>
  /\ mn_k = 1
  /\ written = {}

\* parse_pdf: pages = pdf_pages_text(pdf_path).  pdfplumber.open raises on a
\* document it cannot decode; neither pdf_pages_text, parse_pdf nor main
\* catches it, so the exception ends main.
MainDecode ==
  /\ mn_pc = "loop"
  /\ mn_k <= Len(pdfs)
  /\ mn_pc' = IF pdfs[mn_k].decodable THEN "decoded" ELSE "aborted"
  /\ UNCHANGED << pdfs, mn_k, written >>
  /\ UNCHANGED OutsideMain

\* parse_pdf: the extraction, then write_csv of the two record sets
MainWrite ==
  /\ mn_pc = "decoded"
  /\ written' = written \cup {bids_csv(pdfs[mn_k].path), items_csv(pdfs[mn_k].path)}
  /\ mn_k' = mn_k + 1
  /\ mn_pc' = "loop"
  /\ UNCHANGED pdfs
  /\ UNCHANGED OutsideMain

\* the loop is over
MainReturn ==
  /\ mn_pc = "loop"
  /\ mn_k > Len(pdfs)
  /\ mn_pc' = "done"
  /\ UNCHANGED << pdfs, mn_k, written >>
  /\ UNCHANGED OutsideMain

MainNext == MainDecode \/ MainWrite \/ MainReturn

----------------------------------------------------------------------------
(* The table strategy and the de-duplication as functions of their input:   *)
(* what one call computes when it runs alone.                               *)

RECURSIVE RowsRecords(_, _, _, _, _, _, _, _, _)
RowsRecords(v, rws, k, pageno, pn, schedule, option, last, cur) ==
  IF k > Len(rws) THEN <<>>
  ELSE LET step == TableRowStep(v, rws[k], pageno, pn, schedule, option, last, cur)
       IN step.emit \o RowsRecords(v, rws, k + 1, pageno, pn, schedule, option,
                                   last, step.cur)

TableRecords(v, table, pageno, pn, schedule, option, last) ==
  IF TableAccepted(v, table)
  THEN RowsRecords(v, rows_iter(v, table), 1, pageno, pn, schedule, option, last,
                   <<None, None, None>>)
  ELSE <<>>

RECURSIVE PageRecords(_, _, _, _, _, _, _, _)
PageRecords(v, tables, t, pageno, pn, schedule, option, last) ==
  IF t > Len(tables) THEN <<>>
  ELSE TableRecords(v, tables[t], pageno, pn, schedule, option, last)
       \o PageRecords(v, tables, t + 1, pageno, pn, schedule, option, last)

\* last_schedule after a page
NextLast(v, text, last) ==
  IF Truthy(PageScheduleTables(v, text)) THEN PageScheduleTables(v, text) ELSE last

\* the records of page k, given last_schedule before the page
TablesPageOf(v, pg, k, pn, last) ==
  PageRecords(v, pg.tables, 1, k, pn, PageScheduleTables(v, pg.text),
              PageOptionTables(v, pg.text), NextLast(v, pg.text, last))

RECURSIVE TablesOf(_, _, _, _, _)
TablesOf(v, pgs, k, pn, last) ==
  IF k > Len(pgs) THEN <<>>
  ELSE TablesPageOf(v, pgs[k], k, pn, last)
       \o TablesOf(v, pgs, k + 1, pn, NextLast(v, pgs[k].text, last))

----------------------------------------------------------------------------
(* A pool of workers, each running parse_pdf on one document; the steps of  *)
(* different workers interleave freely.                                     *)

\* one frame for all the calls, as if the locals were module globals
Frame_shared(w) == 1

\* The frame holding the locals of worker w's calls: last_schedule is a
\* local of parse_line_items_tables, seen a local of parse_bid_amounts, so
\* every call has its own.
Frame(w) == w

WorkersInit(docs, n) ==
  /\ wk_doc \in [1..n -> docs]
  /\ wk_pc = [w \in 1..n |-> "tables"]
  /\ wk_page = [w \in 1..n |-> 1]
  /\ wk_last = [w \in 1..n |-> None]
  /\ wk_out = [w \in 1..n |-> <<>>]
  /\ wk_seen = [w \in 1..n |-> {}]
  /\ wk_dedup = [w \in 1..n |-> <<>>]

WorkersIdle ==
  /\ wk_doc = <<>>
  /\ wk_pc = <<>>
  /\ wk_page = <<>>
  /\ wk_last = <<>>
  /\ wk_out = <<>>
  /\ wk_seen = <<>>
  /\ wk_dedup = <<>>

\* worker w: one page of parse_line_items_tables
WorkerTablesPage(w) ==
  /\ wk_pc[w] = "tables"
  /\ IF wk_page[w] <= Len(wk_doc[w].pages)
     THEN LET pg == wk_doc[w].pages[wk_page[w]]
              f == Frame(w)
          IN /\ wk_out' = [wk_out EXCEPT ![w] =
                   @ \o TablesPageOf(version, pg, wk_page[w],
                                     wk_doc[w].project_name, wk_last[f])]
             /\ wk_last' = [wk_last EXCEPT ![f] = NextLast(version, pg.text, @)]
             /\ wk_page' = [wk_page EXCEPT ![w] = @ + 1]
             /\ UNCHANGED wk_pc
     ELSE /\ wk_pc' = [wk_pc EXCEPT ![w] = "dedup"]
          /\ wk_page' = [wk_page EXCEPT ![w] = 1]
          /\ UNCHANGED << wk_out, wk_last >>
  /\ UNCHANGED << wk_doc, wk_seen, wk_dedup >>
  /\ UNCHANGED OutsideWorkers

\* worker w: one row of the de-duplication of parse_bid_amounts
WorkerDedupRow(w) ==
  /\ wk_pc[w] = "dedup"
  /\ IF wk_page[w] <= Len(wk_doc[w].rows)
     THEN LET r == wk_doc[w].rows[wk_page[w]]
              f == Frame(w)
          IN /\ IF BidKey(r) \notin wk_seen[f]
                THEN /\ wk_seen' = [wk_seen EXCEPT ![f] = @ \cup {BidKey(r)}]
                     /\ wk_dedup' = [wk_dedup EXCEPT ![w] = Append(@, r)]
                ELSE UNCHANGED << wk_seen, wk_dedup >>
             /\ wk_page' = [wk_page EXCEPT ![w] = @ + 1]
             /\ UNCHANGED wk_pc
     ELSE /\ wk_pc' = [wk_pc EXCEPT ![w] = "done"]
          /\ UNCHANGED << wk_page, wk_seen, wk_dedup >>
  /\ UNCHANGED << wk_doc, wk_out, wk_last >>
  /\ UNCHANGED OutsideWorkers

WorkersNext ==
  \/ \E w \in DOMAIN wk_pc : WorkerTablesPage(w)
  \/ \E w \in DOMAIN wk_pc : WorkerDedupRow(w)


----------------------------------------------------------------------------
(* One call of a token parser. *)

TokensInit(inputs) ==
  /\ tk_pc = "call"
  /\ tk_x \in inputs
  /\ tk_out = None

TokensIdle ==
  /\ tk_pc = "idle"
  /\ tk_x = None
  /\ tk_out = None

\* money_to_float(x)
TokenMoney ==
  /\ tk_pc = "call"
  /\ tk_pc' = "money"
  /\ tk_out' = money_to_float(tk_x)
  /\ UNCHANGED tk_x
  /\ UNCHANGED OutsideTokens

\* qty_to_float(x)
TokenQty ==
  /\ tk_pc = "call"
  /\ tk_pc' = "qty"
  /\ tk_out' = qty_to_float(tk_x)
  /\ UNCHANGED tk_x
  /\ UNCHANGED OutsideTokens

TokensNext == TokenMoney \/ TokenQty


----------------------------------------------------------------------------
(* One call of build_contractor_fragments. *)

FragmentsInit(inputs) ==
  /\ fr_pc = "call"
  /\ fr_names \in inputs
  /\ fr_out = <<>>

FragmentsIdle ==
  /\ fr_pc = "idle"
  /\ fr_names = {}
  /\ fr_out = <<>>

\* contractor_frags = build_contractor_fragments(contractors)
BuildFragments ==
  /\ fr_pc = "call"
  /\ fr_pc' = "built"
  /\ fr_out' \in FragmentOrders(FragmentSet(fr_names))
  /\ UNCHANGED fr_names
  /\ UNCHANGED OutsideFragments

FragmentsNext == BuildFragments


----------------------------------------------------------------------------
(* parse_metadata: every pattern is searched with re.IGNORECASE.  A search  *)
(* gives the first group of the leftmost match, or None.                    *)

\* a literal of a pattern at index i, in any letter case
MatchAtCI(s, i, pat) ==
  /\ i >= 1
  /\ i + Len(pat) - 1 <= Len(s)
  /\ \A k \in 1..Len(pat) : LowerChar(s[i + k - 1]) = LowerChar(pat[k])

\* re.search: the group of the match at the least index that has one
Search(text, At(_, _)) ==
  LET I == { i \in 1..Len(text) : At(text, i) # None }
  IN IF I = {} THEN None ELSE At(text, Min(I))

\* \s* before a group: greedy, so the longest run of white space after
\* which the rest of the pattern matches
AfterSpaces(text, p, Rest(_, _)) ==
  LET Q == { q \in p..SkipWhile(text, p, Whitespace) : Rest(text, q) # None }
  IN IF Q = {} THEN None ELSE Rest(text, Max(Q))

\* (.+?) or ([\s\S]+?) from q: lazy, so the shortest text of allowed
\* characters behind which the tail of the pattern matches
LazyGroup(text, q, allowed, Behind(_, _)) ==
  LET R == { r \in (q + 1)..(Len(text) + 1) :
               /\ \A j \in q..(r - 1) : text[j] \in allowed
               /\ Behind(text, r) }
  IN IF R = {} THEN None ELSE SubSeq(text, q, Min(R) - 1)

\* ([cls]+) from q at the end of a pattern: greedy
RunGroup(text, q, cls) ==
  LET r == SkipWhile(text, q, cls)
  IN IF r > q THEN SubSeq(text, q, r - 1) ELSE None

\* the characters the dot matches in the texts at hand
Dot(text) == { text[j] : j \in 1..Len(text) } \ {"\n"}
AnyChar(text) == { text[j] : j \in 1..Len(text) }

\* r"Report Date:\s*([0-9/]+)"
DateGroup(text, q) == RunGroup(text, q, Digits \cup {"/"})
ReportDateAt(text, i) ==
  IF MatchAtCI(text, i, <<"R","e","p","o","r","t"," ","D","a","t","e",":">>)
  THEN AfterSpaces(text, i + 12, DateGroup) ELSE None

\* r"Report Generated on\s*([0-9/]+)"
ReportGeneratedAt(text, i) ==
  IF MatchAtCI(text, i, <<"R","e","p","o","r","t"," ","G","e","n","e","r","a","t","e","d"," ","o","n">>)
  THEN AfterSpaces(text, i + 19, DateGroup) ELSE None

\* r"Project Name:\s*(.+?)\n(?:Contractor|Division|Schedule|Report|Project No)"
SectionTail(text, r) ==
  /\ r <= Len(text)
  /\ text[r] = "\n"
  /\ \E w \in { <<"C","o","n","t","r","a","c","t","o","r">>, <<"D","i","v","i","s","i","o","n">>, <<"S","c","h","e","d","u","l","e">>, <<"R","e","p","o","r","t">>, <<"P","r","o","j","e","c","t"," ","N","o">> } :
       MatchAtCI(text, r + 1, w)
SectionGroup(text, q) == LazyGroup(text, q, Dot(text), SectionTail)
ProjectSectionAt(text, i) ==
  IF MatchAtCI(text, i, <<"P","r","o","j","e","c","t"," ","N","a","m","e",":">>)
  THEN AfterSpaces(text, i + 13, SectionGroup) ELSE None

\* r"Project Name:\s*(.+?)\nDivision:"
DivisionTail(text, r) == MatchAtCI(text, r, <<"\n","D","i","v","i","s","i","o","n",":">>)
DivisionGroup(text, q) == LazyGroup(text, q, Dot(text), DivisionTail)
ProjectDivisionAt(text, i) ==
  IF MatchAtCI(text, i, <<"P","r","o","j","e","c","t"," ","N","a","m","e",":">>)
  THEN AfterSpaces(text, i + 13, DivisionGroup) ELSE None

\* r"Project Name:\s*(.+?)\s+Contractor Responsive\?"
ResponsiveTail(text, r) ==
  LET c == SkipWhile(text, r, Whitespace)
  IN c > r /\ MatchAtCI(text, c, <<"C","o","n","t","r","a","c","t","o","r"," ","R","e","s","p","o","n","s","i","v","e","?">>)
ResponsiveGroup(text, q) == LazyGroup(text, q, Dot(text), ResponsiveTail)
ProjectResponsiveAt(text, i) ==
  IF MatchAtCI(text, i, <<"P","r","o","j","e","c","t"," ","N","a","m","e",":">>)
  THEN AfterSpaces(text, i + 13, ResponsiveGroup) ELSE None

\* r"Project Name:\s*([\s\S]+?)\s+Contractor Responsive\?"
ResponsiveLinesGroup(text, q) == LazyGroup(text, q, AnyChar(text), ResponsiveTail)
ProjectLinesAt(text, i) ==
  IF MatchAtCI(text, i, <<"P","r","o","j","e","c","t"," ","N","a","m","e",":">>)
  THEN AfterSpaces(text, i + 13, ResponsiveLinesGroup) ELSE None

\* r"Solicitation No\.?\s*[: ]\s*([A-Z0-9-]+)": the optional dot is tried
\* first, then the longest white space before a colon or a blank
SolicitationGroup(text, q) == RunGroup(text, q, Upper \cup Lower \cup Digits \cup {"-"})
SolicitationSep(text, q) ==
  IF q <= Len(text) /\ text[q] \in {":", " "}
  THEN AfterSpaces(text, q + 1, SolicitationGroup) ELSE None
SolicitationAt(text, i) ==
  IF ~MatchAtCI(text, i, <<"S","o","l","i","c","i","t","a","t","i","o","n"," ","N","o">>) THEN None
  ELSE LET p == i + 15
           dotted == IF p <= Len(text) /\ text[p] = "."
                     THEN AfterSpaces(text, p + 1, SolicitationSep) ELSE None
       IN IF dotted # None THEN dotted ELSE AfterSpaces(text, p, SolicitationSep)

\* r"State:\s*([A-Z]{2})\b"
StateGroup(text, q) ==
  IF /\ q + 1 <= Len(text)
     /\ text[q] \in Upper \cup Lower
     /\ text[q + 1] \in Upper \cup Lower
     /\ WordBoundary(text, q + 2)
  THEN SubSeq(text, q, q + 1) ELSE None
StateAt(text, i) ==
  IF MatchAtCI(text, i, <<"S","t","a","t","e",":">>)
  THEN AfterSpaces(text, i + 6, StateGroup) ELSE None

\* r"County:\s*([A-Za-z0-9, ]+)\n"
CountyGroup(text, q) ==
  LET r == SkipWhile(text, q, Upper \cup Lower \cup Digits \cup {",", " "})
  IN IF r > q /\ r <= Len(text) /\ text[r] = "\n"
     THEN SubSeq(text, q, r - 1) ELSE None
CountyAt(text, i) ==
  IF MatchAtCI(text, i, <<"C","o","u","n","t","y",":">>)
  THEN AfterSpaces(text, i + 7, CountyGroup) ELSE None

\* r"Opened at:\s*(.+?)\n"
LineTail(text, r) == r <= Len(text) /\ text[r] = "\n"
LineGroup(text, q) == LazyGroup(text, q, Dot(text), LineTail)
OpenedAt(text, i) ==
  IF MatchAtCI(text, i, <<"O","p","e","n","e","d"," ","a","t",":">>)
  THEN AfterSpaces(text, i + 10, LineGroup) ELSE None

\* r"Bid Open Date and Time:\s*([0-9/ :APMapm]+)"
BidOpenGroup(text, q) ==
  RunGroup(text, q, Digits \cup {"/", " ", ":", "A", "P", "M", "a", "p", "m"})
BidOpenAt(text, i) ==
  IF MatchAtCI(text, i, <<"B","i","d"," ","O","p","e","n"," ","D","a","t","e"," ","a","n","d"," ","T","i","m","e",":">>)
  THEN AfterSpaces(text, i + 23, BidOpenGroup) ELSE None

\* the groups of the pattern alternatives of a field, in their listed order
Alternatives(field, text) ==
  CASE field = "report_date" ->
         << Search(text, ReportDateAt), Search(text, ReportGeneratedAt) >>
    [] field = "project_name" ->
         << Search(text, ProjectSectionAt), Search(text, ProjectDivisionAt),
            Search(text, ProjectResponsiveAt), Search(text, ProjectLinesAt) >>
    [] field = "solicitation_no" -> << Search(text, SolicitationAt) >>
    [] field = "state" -> << Search(text, StateAt) >>
    [] field = "county" -> << Search(text, CountyAt) >>
    [] field = "opened_at" -> << Search(text, OpenedAt) >>
    [] field = "bid_open_date_time" -> << Search(text, BidOpenAt) >>

MetadataFields ==
  { "report_date", "project_name", "solicitation_no", "state", "county",
    "opened_at", "bid_open_date_time" }

\* grab: the normalized group of the first alternative that matches
grab(found) ==
  LET K == { k \in 1..Len(found) : found[k] # None }
  IN IF K = {} THEN None ELSE normalize_ws(found[Min(K)])

parse_metadata(all_text) ==
  [ field \in MetadataFields |-> grab(Alternatives(field, all_text)) ]

MetadataInit(texts) ==
  /\ md_pc = "call"
  /\ md_text \in texts
  /\ md_meta = None

MetadataIdle ==
  /\ md_pc = "idle"
  /\ md_text = <<>>
  /\ md_meta = None

\* meta = parse_metadata(all_text)
ParseMetadata ==
  /\ md_pc = "call"
  /\ md_pc' = "done"
  /\ md_meta' = parse_metadata(md_text)
  /\ UNCHANGED md_text
  /\ UNCHANGED OutsideMetadata

MetadataNext == ParseMetadata


----------------------------------------------------------------------------
(* The table strategy on the documents a decoder can hand over: up to       *)
(* MaxPages pages holding up to MaxTables tables in all.                    *)

MaxPages == 2
MaxTables == 2

Header == << <<"L","i","n","e"," ","I","t","e","m">>, <<"P","a","y"," ","I","t","e","m">>, <<"D","e","s","c","r","i","p","t","i","o","n">>, <<"C","o","n","t","r","a","c","t","o","r">> >>

\* a row with a line-item code only and a row that finds no pay-item code;
\* then a code row without contractor and its continuation row
GridCarry ==
  << Header,
     << <<"C","0","0","0","1">>, None, <<"D">> >>,
     << None, None, None, <<"Z","e","d">>, None, None, None, <<"9">> >>,
     << <<"A","0","2","0","0">>, <<"1","5","1","0","1","-","0","0","0","0">>, <<"M","O","B">>, <<>> >>,
     << None, None, <<>>, <<"A","c","m","e">>, <<"5","0","0">>, <<"C","U","Y","D">>, <<"1","0","0",".","0","0">>, <<"5","0",",","0","0","0",".","0","0">> >> >>

\* no header; a full row, an estimate row continuing it, a row without price
GridSignature ==
  << << <<"B","0","1","0","0">>, <<"2","0","0","0","0","-","0","0","0","1">>, <<"P","I","P","E">>, <<"A","c","m","e">>, <<"2">>, <<"E","A">>, <<"$","1",".","5","0">>, <<"$","3",".","0","0">> >>,
     << None, None, None, <<"E","n","g","i","n","e","e","r","'","s"," ","E","s","t","i","m","a","t","e">>, None, None, None, <<"4",".","0","0">> >>,
     << <<>>, <<>>, <<>>, <<"Z","e","d">>, <<"1">>, <<"L","S">> >> >>

\* no header and no row with both codes
GridUnsigned ==
  << << <<"A","0","2","0","0">>, <<"X">>, <<"M","O","B">>, <<"A","c","m","e">>, <<>>, <<>>, <<"1",".","0","0">>, <<"2",".","0","0">> >> >>

TableGrids == { GridCarry, GridSignature, GridUnsigned }

TableTexts == { <<"S","c","h","e","d","u","l","e",":"," ","A","\n","O","p","t","i","o","n",":"," ","B">>, <<>> }

InitTables ==
  /\ version \in {1, 2}
  /\ project_name = <<"P">>
  /\ TablesInit /\ TextIdle /\ ReconcileIdle /\ DedupIdle /\ MainIdle /\ WorkersIdle /\ TokensIdle /\ FragmentsIdle /\ MetadataIdle /\ TextV1Idle /\ BidsIdle

NextTables ==
  \/ TablesPage(TableTexts, MaxPages)
  \/ TablesTable(TableGrids, MaxTables)
  \/ TablesRow
  \/ TablesEndPage
  \/ TablesReturn

SpecTables == InitTables /\ [][NextTables]_vars

\* the table strategy returns what the fold over the document computes
TablesFold ==
  tb_pc = "done" => out_tables = TablesOf(version, tb_pages, 1, project_name, None)


\* the table being read, and the cells of the row about to be read
CurrentTable == tb_pages[Len(tb_pages)].tables[Len(tb_pages[Len(tb_pages)].tables)]
RowNow == RowCells(version, tb_rows[tb_ridx])

\* a cell holds a price the parser can read
IsPrice(cell) == Truthy(cell) /\ money_to_float(cell) # None

\* C2: in the table strategy a row without contractor, or for which no
\* line-item or pay-item code is available, emits no record and records its
\* non-empty line-item, pay-item and description cells; a row with empty
\* line-item, pay-item and description cells, a contractor and a price emits
\* exactly one record that inherits the three recorded values; and the
\* recorded values are absent when the first row of a table is read.
C2_CarryForward ==
  [][ /\ tb_pc = "row" =>
           LET c == RowNow
               lacking == \/ c[4] = <<>>
                          \/ c[1] = <<>> /\ current_line_item = None
                          \/ c[2] = <<>> /\ current_pay_item = None
               continuing == /\ c[1] = <<>> /\ c[2] = <<>> /\ c[3] = <<>>
                             /\ c[4] # <<>>
                             /\ IsPrice(c[7]) \/ IsPrice(c[8])
                             /\ current_line_item # None
                             /\ current_pay_item # None
           IN /\ lacking =>
                   /\ out_tables' = out_tables
                   /\ current_line_item' = IF c[1] # <<>> THEN c[1] ELSE current_line_item
                   /\ current_pay_item' = IF c[2] # <<>> THEN c[2] ELSE current_pay_item
                   /\ current_desc' = IF c[3] # <<>> THEN c[3] ELSE current_desc
              /\ continuing =>
                   /\ Len(out_tables') = Len(out_tables) + 1
                   /\ SubSeq(out_tables', 1, Len(out_tables)) = out_tables
                   /\ out_tables'[Len(out_tables')].line_item_no = current_line_item
                   /\ out_tables'[Len(out_tables')].pay_item_no = current_pay_item
                   /\ out_tables'[Len(out_tables')].description = current_desc
                   /\ out_tables'[Len(out_tables')].contractor = c[4]
      /\ (tb_pc' = "row" /\ tb_ridx' = 1) =>
           /\ current_line_item' = None
           /\ current_pay_item' = None
           /\ current_desc' = None
    ]_vars

\* a code row without contractor was read, then a continuation row with a
\* contractor and a price, and the record carries the code row's values
C2_Witness ==
  \E k \in 2..Len(tb_rows) :
    /\ tb_ridx = k + 1
    /\ LET r1 == RowCells(version, tb_rows[k - 1])
           r2 == RowCells(version, tb_rows[k])
       IN /\ r1[1] # <<>> /\ r1[2] # <<>> /\ r1[3] # <<>> /\ r1[4] = <<>>
          /\ r2[1] = <<>> /\ r2[2] = <<>> /\ r2[3] = <<>> /\ r2[4] # <<>>
          /\ IsPrice(r2[8])
          /\ out_tables # <<>>
          /\ out_tables[Len(out_tables)].line_item_no = r1[1]
          /\ out_tables[Len(out_tables)].pay_item_no = r1[2]
          /\ out_tables[Len(out_tables)].description = r1[3]
          /\ out_tables[Len(out_tables)].contractor = r2[4]

\* the condition on a table grid: both markers in its first row, or else a
\* row whose first two cells are a line-item code and a pay-item code
Eligible(table) ==
  /\ table # <<>>
  /\ table[1] # <<>>
  /\ \/ has_header(version, table)
     \/ \E k \in 1..Len(table) :
          /\ Len(table[k]) >= 2
          /\ LINE_ITEM_RE_fullmatch(NormWs(version, CellStr(table[k][1])))
          /\ PAY_ITEM_RE_fullmatch(NormWs(version, CellStr(table[k][2])))

\* the document without the tables that do not meet the condition
Pruned(pgs) ==
  [k \in 1..Len(pgs) |-> [pgs[k] EXCEPT !.tables = SelectSeq(@, Eligible)]]

\* a row that would emit a record on its own
EmitsAlone(row) ==
  TableRowStep(version, row, 1, project_name, None, None, None,
               <<None, None, None>>).emit # <<>>

\* C9: rows are read, and records emitted, only from a table that has both
\* markers in its first row or else a row with both codes; the output of a
\* document is the output of the same document without its other tables.
C9_TableAcceptance ==
  /\ tb_pc = "row" => Eligible(CurrentTable)
  /\ tb_pc = "done" =>
       out_tables = TablesOf(version, Pruned(tb_pages), 1, project_name, None)

\* a page held a table meeting neither condition, with a row that would emit
\* a record on its own, next to a table that emitted records
C9_Witness ==
  /\ tb_pc = "done"
  /\ out_tables # <<>>
  /\ \E k \in 1..Len(tb_pages) :
       \E a, b \in 1..Len(tb_pages[k].tables) :
         /\ ~Eligible(tb_pages[k].tables[a])
         /\ \E r \in 1..Len(tb_pages[k].tables[a]) : EmitsAlone(tb_pages[k].tables[a][r])
         /\ Eligible(tb_pages[k].tables[b])
         /\ \E i \in 1..Len(out_tables) : out_tables[i].pdf_page = k


----------------------------------------------------------------------------
(* The text strategy (parser_v2) on documents of up to MaxPages pages.      *)

\* a tagged page: one item with an estimate row and a contractor row
PageTagged ==
  <<"S","c","h","e","d","u","l","e",":"," ","A","\n","A","0","2","0","0"," ","1","5","1","0","1","-","0","0","0","0"," ","M","O","B","\n","E","n","g","i","n","e","e","r","'","s"," ","E","s","t","i","m","a","t","e"," ","5","0","0"," ","C","U","Y","D"," ","$","1","0","0",".","0","0"," ","$","5","0",",","0","0","0",".","0","0","\n","A","c","m","e"," ","C","o","r","p","."," ","$","9","0",".","0","0"," ","$","4","5",",","0","0","0",".","0","0">>

\* a page without tag: an estimate row with a pair, one without, a
\* contractor row followed by a line that reads as a name suffix
PagePlain ==
  <<"B","0","1","0","0"," ","2","0","0","0","0","-","0","0","0","1"," ","P","I","P","E","\n","E","n","g","i","n","e","e","r","'","s"," ","E","s","t","i","m","a","t","e"," ","2"," ","E","A"," ","$","4",".","0","0","\n","E","N","G","I","N","E","E","R","S"," ","E","S","T","I","M","A","T","E"," ","$","1",".","0","0"," ","$","2",".","0","0","\n","Z","e","d"," ","L","L","C"," ","$","3",".","0","0","\n","E","n","g","i","n","e","e","r","'","s"," ","E","s","t","i","m","a","t","e"," ","I","n","c",".">>

\* a page with both tags and an estimate row without amounts
PageOption ==
  <<"S","c","h","e","d","u","l","e",":"," ","B","\n","O","p","t","i","o","n",":"," ","X","\n","C","0","0","0","1"," ","3","0","0","0","0","-","0","0","0","2"," ","R","O","C","K","\n","e","n","g","i","n","e","e","r","'","s"," ","e","s","t","i","m","a","t","e"," ","7"," ","T","O","N","\n","w","a","l","l","\n","D","0","0","0","2"," ","3","0","0","0","0","-","0","0","0","3"," ","S","A","N","D">>

TextPages == { PageTagged, PagePlain, PageOption }

TextDocs == UNION { [1..n -> TextPages] : n \in 1..MaxPages }

InitText ==
  /\ version = 2
  /\ project_name = <<"P">>
  /\ TextInit(TextDocs)
  /\ TablesIdle /\ ReconcileIdle /\ DedupIdle /\ MainIdle /\ WorkersIdle /\ TokensIdle /\ FragmentsIdle /\ MetadataIdle /\ TextV1Idle /\ BidsIdle

SpecText == InitText /\ [][TextNext]_vars

\* the 'Schedule: X' tag a page carries, or None
ScheduleTag(text) == LastTag(splitlines(text), <<"S","c","h","e","d","u","l","e",":">>, FALSE, FALSE)

\* records out of the pages with texts: every record of a page that carries
\* no tag, behind a page tagged X with untagged pages in between, reports X
Sticky(out, texts) ==
  \A i \in 1..Len(out) : \A p \in 1..(out[i].pdf_page - 1) :
    ( /\ ScheduleTag(texts[p]) # None
      /\ \A k \in (p + 1)..out[i].pdf_page : ScheduleTag(texts[k]) = None )
    => out[i].schedule = ScheduleTag(texts[p])

\* C1: the records the table strategy and the text strategy emit for the
\* untagged pages that follow a page tagged 'Schedule: X' report schedule X.
C1_StickySchedule ==
  /\ Sticky(out_tables, [k \in 1..Len(tb_pages) |-> tb_pages[k].text])
  /\ Sticky(out_text, pages)

\* a document whose first page is tagged and whose second is not: the text
\* strategy returned a record of page 2 without schedule
C1_Witness ==
  /\ tx_pc = "done"
  /\ Len(pages) = 2
  /\ ScheduleTag(pages[1]) # None
  /\ ScheduleTag(pages[2]) = None
  /\ \E i \in 1..Len(out_text) :
       out_text[i].pdf_page = 2 /\ out_text[i].schedule = None

\* the row of the block being read is an Engineer's Estimate row
EngineerRowNow ==
  tx_pc = "rows" /\ tx_j <= Len(tx_block) /\ IsEngineerLine(tx_block[tx_j])

\* the amounts of a line, as numbers
Amounts(bl) ==
  [k \in 1..Len(MONEY_RE_findall(bl)) |-> money_to_float(MONEY_RE_findall(bl)[k])]

\* the first Engineer's Estimate line of a block
FirstEngineerLine(block) ==
  block[Min({k \in 1..Len(block) : IsEngineerLine(block[k])})]

\* what the text strategy does: every line of a block that mentions the
\* Engineer's Estimate marker, unless it is consumed as the name suffix of
\* the contractor row before it, emits one record with contractor
\* "Engineer's Estimate" and is_engineers_estimate = 1, whose amount is the
\* last amount of the line (absent without amount), whose unit_price is the
\* second-to-last amount (absent with fewer than two), and whose quantity
\* and unit are the first adjacent (quantity, unit) pair of the line or,
\* when the line has none, that of the first Engineer's Estimate line of
\* the block
EngineerRowRecord ==
  [][ /\ EngineerRowNow =>
           LET bl == tx_block[tx_j]
               a == Amounts(bl)
               pair == IF QtyUnitPair(bl)[1] # None THEN QtyUnitPair(bl)
                       ELSE QtyUnitPair(FirstEngineerLine(tx_block))
               rec == out_text'[Len(out_text')]
           IN /\ Len(out_text') = Len(out_text) + 1
              /\ SubSeq(out_text', 1, Len(out_text)) = out_text
              /\ rec.contractor = <<"E","n","g","i","n","e","e","r","'","s"," ","E","s","t","i","m","a","t","e">>
              /\ rec.is_engineers_estimate = 1
              /\ rec.amount = IF Len(a) >= 1 THEN a[Len(a)] ELSE None
              /\ rec.unit_price = IF Len(a) >= 2 THEN a[Len(a) - 1] ELSE None
              /\ rec.quantity = pair[1]
              /\ rec.unit = pair[2]
              /\ tx_j' = tx_j + 1
      /\ (tx_pc = "rows" /\ tx_j' # tx_j /\ ~EngineerRowNow) =>
           \A k \in tx_j..(tx_j' - 1) :
             IsEngineerLine(tx_block[k]) =>
               /\ k = tx_j + 1
               /\ MONEY_RE_search(tx_block[tx_j])
               /\ ~MONEY_RE_search(tx_block[k])
               /\ looks_like_suffix(tx_block[k])
    ]_vars

\* a line that mentions the marker followed a contractor row and was
\* consumed as its name suffix: no estimate record, and the marker in the
\* contractor name of a record flagged 0
C10_Witness ==
  /\ tx_pc = "rows"
  /\ tx_j >= 3
  /\ tx_j = Len(tx_block) + 1
  /\ IsEngineerLine(tx_block[tx_j - 1])
  /\ ~IsEngineerLine(tx_block[tx_j - 2])
  /\ MONEY_RE_search(tx_block[tx_j - 2])
  /\ out_text # <<>>
  /\ out_text[Len(out_text)].is_engineers_estimate = 0
  /\ IsEngineerLine(out_text[Len(out_text)].contractor)

\* C10: every line of a block that mentions the Engineer's Estimate marker
\* emits a record with contractor "Engineer's Estimate" and
\* is_engineers_estimate = 1, whose amount is the last amount of the line,
\* whose unit_price is the second-to-last amount when there are two (absent
\* otherwise), and whose quantity and unit are the first adjacent
\* (quantity, unit) pair of the line.
C10_EngineerRow ==
  [][ /\ EngineerRowNow =>
           /\ Len(out_text') = Len(out_text) + 1
           /\ out_text'[Len(out_text')].contractor = <<"E","n","g","i","n","e","e","r","'","s"," ","E","s","t","i","m","a","t","e">>
           /\ out_text'[Len(out_text')].is_engineers_estimate = 1
           /\ out_text'[Len(out_text')].amount =
                IF Amounts(tx_block[tx_j]) = <<>> THEN None
                ELSE Amounts(tx_block[tx_j])[Len(Amounts(tx_block[tx_j]))]
           /\ out_text'[Len(out_text')].unit_price =
                IF Len(Amounts(tx_block[tx_j])) < 2 THEN None
                ELSE Amounts(tx_block[tx_j])[Len(Amounts(tx_block[tx_j])) - 1]
           /\ out_text'[Len(out_text')].quantity = QtyUnitPair(tx_block[tx_j])[1]
           /\ out_text'[Len(out_text')].unit = QtyUnitPair(tx_block[tx_j])[2]
      /\ (tx_pc = "rows" /\ tx_j' # tx_j) =>
           \A k \in tx_j..(tx_j' - 1) : IsEngineerLine(tx_block[k]) => k = tx_j
    ]_vars


----------------------------------------------------------------------------
(* The reconciliation of parse_pdf on the record lists the two strategies   *)
(* can return: up to MaxItems records each.                                 *)

MaxItems == 2

\* a line-item record of page 1, item A0200 / 15101-0000
Item(schedule, contractor, quantity, unit, amount) ==
  [ pdf_page |-> 1,
    project_name |-> <<"P">>,
    schedule |-> schedule,
    option |-> None,
    line_item_no |-> <<"A","0","2","0","0">>,
    pay_item_no |-> <<"1","5","1","0","1","-","0","0","0","0">>,
    description |-> <<"M","O","B">>,
    quantity |-> quantity,
    unit |-> unit,
    contractor |-> contractor,
    unit_price |-> None,
    amount |-> amount,
    is_engineers_estimate |-> 0 ]

\* table records: without quantity and unit, without unit, complete
TableItems ==
  { Item(<<"A">>, <<"A","c","m","e">>, None, None, <<9, 0>>),
    Item(<<"A">>, <<"A","c","m","e">>, <<3, 0>>, None, <<9, 0>>),
    Item(<<"A">>, <<"Z","e","d">>, <<5, 0>>, <<"E","A">>, <<8, 0>>) }

\* text records: two of the key of Acme, one of another schedule
TextItems ==
  { Item(<<"A">>, <<"A","c","m","e">>, <<500, 0>>, <<"C","U","Y","D">>, <<7, 0>>),
    Item(<<"A">>, <<"A","c","m","e">>, <<7, 0>>, <<"T","O","N">>, <<6, 0>>),
    Item(None, <<"A","c","m","e">>, <<1, 0>>, <<"L","S">>, <<5, 0>>) }

ListsOf(S, n) == UNION { [1..k -> S] : k \in 0..n }

InitReconcile ==
  /\ version \in {1, 2}
  /\ project_name = <<"P">>
  /\ ReconcileInit(ListsOf(TableItems, MaxItems), ListsOf(TextItems, MaxItems))
  /\ TablesIdle /\ TextIdle /\ DedupIdle /\ MainIdle /\ WorkersIdle /\ TokensIdle /\ FragmentsIdle /\ MetadataIdle /\ TextV1Idle /\ BidsIdle

SpecReconcile == InitReconcile /\ [][ReconcileNext]_vars

\* parser_v1 alone: the reconciliation with _merge_qty_unit_from_text
InitMerge == InitReconcile /\ version = 1

SpecMerge == InitMerge /\ [][ReconcileNext]_vars

\* the text records with the key of a record, by their place in the output
Matches(it) ==
  { k \in 1..Len(items_text) :
      /\ items_text[k].schedule = it.schedule
      /\ items_text[k].line_item_no = it.line_item_no
      /\ items_text[k].pay_item_no = it.pay_item_no
      /\ items_text[k].contractor = it.contractor }

Missing(it) == it.quantity = None \/ it.unit = None

\* record r is table record it with whatever it misses taken from src
FilledFrom(r, it, src) ==
  /\ r.quantity = IF it.quantity = None THEN src.quantity ELSE it.quantity
  /\ r.unit = IF it.unit = None THEN src.unit ELSE it.unit
  /\ [r EXCEPT !.quantity = None, !.unit = None]
       = [it EXCEPT !.quantity = None, !.unit = None]

\* C3: every table record that misses quantity or unit and has a text record
\* of the same key is reconciled into itself with the missing quantity and
\* unit taken from such a text record, every other field being its own.
C3_BackFill ==
  (rc_pc = "done" /\ tables_in # <<>>) =>
    /\ Len(items) = Len(tables_in)
    /\ \A i \in 1..Len(tables_in) :
         (Missing(tables_in[i]) /\ Matches(tables_in[i]) # {}) =>
           \E k \in Matches(tables_in[i]) :
             FilledFrom(items[i], tables_in[i], items_text[k])

\* parser_v2 ended with a table record still without the quantity that a
\* text record of its key holds
C3_Witness ==
  /\ rc_pc = "done"
  /\ version = 2
  /\ \E i \in 1..Len(tables_in) : \E k \in Matches(tables_in[i]) :
       /\ tables_in[i].quantity = None
       /\ items_text[k].quantity # None
       /\ items[i].quantity = None

\* C4: when the table strategy returned records, the line items are its
\* records, as many and in the same order, each differing from the table
\* record at most in a quantity or unit the table record misses; when it
\* returned none, the line items are the text records, unchanged.
C4_Selection ==
  rc_pc = "done" =>
    IF tables_in # <<>>
    THEN /\ Len(items) = Len(tables_in)
         /\ \A i \in 1..Len(items) :
              /\ [items[i] EXCEPT !.quantity = None, !.unit = None]
                   = [tables_in[i] EXCEPT !.quantity = None, !.unit = None]
              /\ tables_in[i].quantity # None => items[i].quantity = tables_in[i].quantity
              /\ tables_in[i].unit # None => items[i].unit = tables_in[i].unit
    ELSE items = items_text

\* both strategies returned records, and the line items are the table records
C4_Witness ==
  /\ rc_pc = "done"
  /\ Len(tables_in) = 2
  /\ items_text # <<>>
  /\ Len(items) = 2
  /\ tables_in[1] # tables_in[2]

\* what _merge_qty_unit_from_text does: when several text records have the
\* key of a table record that misses quantity or unit, the table record is
\* back-filled from the last of them in output order
MergeKeepsLast ==
  (rc_pc = "done" /\ tables_in # <<>>) =>
    \A i \in 1..Len(tables_in) :
      (Missing(tables_in[i]) /\ Matches(tables_in[i]) # {}) =>
        FilledFrom(items[i], tables_in[i], items_text[Max(Matches(tables_in[i]))])

\* two text records of one key with different quantities, and a table record
\* of that key without quantity: it got the quantity of the second
C5_Witness ==
  /\ rc_pc = "done"
  /\ \E i \in 1..Len(tables_in) :
       /\ tables_in[i].quantity = None
       /\ Cardinality(Matches(tables_in[i])) = 2
       /\ items_text[1].quantity # items_text[2].quantity
       /\ items[i].quantity = items_text[2].quantity

\* C5: when several text records have the key of a table record that misses
\* quantity or unit, the table record is back-filled from the first of them
\* in output order, not from a later one.
C5_FirstMatch ==
  (rc_pc = "done" /\ tables_in # <<>>) =>
    \A i \in 1..Len(tables_in) :
      (Missing(tables_in[i]) /\ Matches(tables_in[i]) # {}) =>
        FilledFrom(items[i], tables_in[i], items_text[Min(Matches(tables_in[i]))])


----------------------------------------------------------------------------
(* The de-duplication of parse_bid_amounts on up to MaxRows candidate rows. *)

MaxRows == 3

\* a candidate row of the bid summary
BidRow(page, schedule, contractor, engineer) ==
  [ pdf_page |-> page,
    project_name |-> <<"P">>,
    report_date |-> None,
    solicitation_no |-> None,
    schedule |-> schedule,
    option |-> None,
    contractor |-> contractor,
    bid_amount |-> <<100, 0>>,
    is_engineers_estimate |-> engineer ]

\* one bid on two pages, the same bid under no schedule, the estimate
BidRows ==
  { BidRow(1, <<"A">>, <<"A","c","m","e">>, 0),
    BidRow(2, <<"A">>, <<"A","c","m","e">>, 0),
    BidRow(1, None, <<"A","c","m","e">>, 0),
    BidRow(2, <<"A">>, <<"E","n","g","i","n","e","e","r","'","s"," ","E","s","t","i","m","a","t","e">>, 1) }

InitDedup ==
  /\ version \in {1, 2}
  /\ project_name = <<"P">>
  /\ DedupInit(ListsOf(BidRows, MaxRows))
  /\ TablesIdle /\ TextIdle /\ ReconcileIdle /\ MainIdle /\ WorkersIdle /\ TokensIdle /\ FragmentsIdle /\ MetadataIdle /\ TextV1Idle /\ BidsIdle

SpecDedup == InitDedup /\ [][DedupNext]_vars

\* two rows have the same uniqueness key
SameBid(a, b) ==
  /\ a.project_name = b.project_name
  /\ a.schedule = b.schedule
  /\ a.option = b.option
  /\ a.contractor = b.contractor
  /\ a.bid_amount = b.bid_amount

\* the rows rr[k..] that no earlier row of rr equals in the key
RECURSIVE FirstOccurrences(_, _)
FirstOccurrences(rr, k) ==
  IF k > Len(rr) THEN <<>>
  ELSE (IF \E j \in 1..(k - 1) : SameBid(rr[j], rr[k]) THEN <<>> ELSE <<rr[k]>>)
       \o FirstOccurrences(rr, k + 1)

\* C6: no two records of the de-duplicated bid summary share the key
\* (project_name, schedule, option, contractor, bid_amount), whatever their
\* pages; the output is the candidate rows' first occurrences of each key,
\* in their order; and de-duplicating the output again changes nothing.
C6_Dedup ==
  /\ \A i, j \in 1..Len(dedup) : SameBid(dedup[i], dedup[j]) => i = j
  /\ dedup = FirstOccurrences(SubSeq(bid_rows, 1, bd_k - 1), 1)
  /\ bd_pc = "done" =>
       /\ dedup = FirstOccurrences(bid_rows, 1)
       /\ DedupOf(dedup, 1, {}) = dedup

\* the rows held one key on two pages and two other keys; one row was dropped
C6_Witness ==
  /\ bd_pc = "done"
  /\ Len(bid_rows) = 3
  /\ Len(dedup) = 2
  /\ \E i, j \in 1..3 :
       /\ i < j
       /\ SameBid(bid_rows[i], bid_rows[j])
       /\ bid_rows[i].pdf_page # bid_rows[j].pdf_page
       /\ dedup[1] = bid_rows[1]

----------------------------------------------------------------------------
(* main on a batch of up to MaxBatch documents, some of which the decoder   *)
(* cannot read.                                                             *)

MaxBatch == 3

\* the paths a glob can return, in sorted order
BatchPaths == << <<"i","n","/","a"," ","b",".","p","d","f">>, <<"i","n","/","a",".","p","d","f">>, <<"i","n","/","a","_","b",".","p","d","f">>, <<"i","n","/","c",".","p","d","f">> >>

\* the members of a set of numbers in increasing order
RECURSIVE Ascending(_)
Ascending(S) == IF S = {} THEN <<>> ELSE <<Min(S)>> \o Ascending(S \ {Min(S)})

\* the batches: sorted, non-empty, each document decodable or not
Batches ==
  { [k \in 1..Len(Ascending(S)) |->
       [path |-> BatchPaths[Ascending(S)[k]], decodable |-> Ascending(S)[k] \in D]] :
    <<S, D>> \in { <<S, D>> \in (SUBSET (1..Len(BatchPaths))) \X (SUBSET (1..Len(BatchPaths))) :
                     S # {} /\ Cardinality(S) <= MaxBatch /\ D \subseteq S } }

InitBatch ==
  /\ version \in {1, 2}
  /\ project_name = <<"P">>
  /\ MainInit(Batches)
  /\ TablesIdle /\ TextIdle /\ ReconcileIdle /\ DedupIdle /\ WorkersIdle /\ TokensIdle /\ FragmentsIdle /\ MetadataIdle /\ TextV1Idle /\ BidsIdle

SpecBatch == InitBatch /\ [][MainNext]_vars

\* C7: a document the decoder cannot read does not abort the batch: every
\* other document is processed and both its outputs are written.
C7_Isolation ==
  /\ mn_pc # "aborted"
  /\ mn_pc = "done" =>
       \A k \in 1..Len(pdfs) :
         pdfs[k].decodable =>
           {bids_csv(pdfs[k].path), items_csv(pdfs[k].path)} \subseteq written

\* the run ended at a document the decoder cannot read, with a readable
\* document of the batch still unprocessed
C7_Witness ==
  /\ mn_pc = "aborted"
  /\ \E k \in (mn_k + 1)..Len(pdfs) :
       /\ pdfs[k].decodable
       /\ bids_csv(pdfs[k].path) \notin written

----------------------------------------------------------------------------
(* A pool of up to MaxWorkers workers on documents of their own.            *)

MaxWorkers == 2

\* a tagged page and an untagged page with a table each; one bid on two pages
DocTwoPages ==
  [ project_name |-> <<"P">>,
    pages |-> << [text |-> <<"S","c","h","e","d","u","l","e",":"," ","A">>, tables |-> <<GridSignature>>],
                 [text |-> <<>>, tables |-> <<GridSignature>>] >>,
    rows |-> << BidRow(1, <<"A">>, <<"A","c","m","e">>, 0), BidRow(2, <<"A">>, <<"A","c","m","e">>, 0) >> ]

\* a single untagged page; the same bid
DocOnePage ==
  [ project_name |-> <<"P">>,
    pages |-> << [text |-> <<>>, tables |-> <<GridSignature>>] >>,
    rows |-> << BidRow(1, <<"A">>, <<"A","c","m","e">>, 0) >> ]

WorkerDocs == { DocTwoPages, DocOnePage }

InitWorkers ==
  /\ version \in {1, 2}
  /\ project_name = <<"P">>
  /\ WorkersInit(WorkerDocs, MaxWorkers)
  /\ TablesIdle /\ TextIdle /\ ReconcileIdle /\ DedupIdle /\ MainIdle /\ TokensIdle /\ FragmentsIdle /\ MetadataIdle /\ TextV1Idle /\ BidsIdle

SpecWorkers == InitWorkers /\ [][WorkersNext]_vars

----------------------------------------------------------------------------
(* The token parsers on every text of up to MaxToken characters of the      *)
(* token alphabet, on the tokens the specification names, and on None.      *)

MaxToken == 3

TokenChars ==
  {"0", "1", ".", ",", "$", "-", "+", " ", "_", "e", "E", "n", "a", "i", "f"}

TokenTexts ==
  UNION { [1..n -> TokenChars] : n \in 0..MaxToken }
    \cup { <<"$","0",".","0","0">>, <<"1","1",",","0","0","0",".","0","0","0">>, <<"$","1","2",",","3","4","5",".","6","7">>, <<"3",",","8","9","0">>, None }

InitTokens ==
  /\ version \in {1, 2}
  /\ project_name = <<"P">>
  /\ TokensInit(TokenTexts)
  /\ TablesIdle /\ TextIdle /\ ReconcileIdle /\ DedupIdle /\ MainIdle /\ WorkersIdle /\ FragmentsIdle /\ MetadataIdle /\ TextV1Idle /\ BidsIdle

SpecTokens == InitTokens /\ [][TokensNext]_vars

\* what is left of the argument when the characters the parser drops are
\* removed
Remainder ==
  IF tk_pc = "money" THEN RemoveChar(RemoveChar(tk_x, "$"), ",")
  ELSE RemoveChar(tk_x, ",")

\* the remainder reads as a number
IsNumberText(r) == ParseFloat(r) \notin {None, NaN}

\* C11: money_to_float and qty_to_float return for every text; the value is
\* absent when the remainder is not a number and is the number otherwise;
\* '$0.00' gives the number 0, which is not absent, and '11,000.000' gives
\* 11000.
C11_TokenParsersTotal ==
  (tk_pc \in {"money", "qty"} /\ tk_x # None) =>
    /\ tk_out = None <=> ~IsNumberText(Remainder)
    /\ IsNumberText(Remainder) => tk_out = ParseFloat(Remainder)
    /\ (tk_pc = "money" /\ tk_x = <<"$","0",".","0","0">>) => (tk_out = <<0, 0>> /\ tk_out # None)
    /\ tk_x = <<"1","1",",","0","0","0",".","0","0","0">> => tk_out = <<11000, 0>>

\* money_to_float returned NaN, a value that is present, for a text whose
\* remainder is 'nan'
C11_Witness ==
  /\ tk_pc = "money"
  /\ tk_x # None
  /\ ToLower(Strip(Remainder, Whitespace)) = <<"n","a","n">>
  /\ tk_out = NaN
  /\ tk_out # None


----------------------------------------------------------------------------
(* The Engineer's Estimate among the contractors. *)

\* the contractor registry of the document
Registry == extract_contractors(version, AllText(pages))

\* no name of the registry mentions 'Engineer' or 'Estimate'
RegistryClean ==
  \A n \in Registry : ~Contains(n, <<"E","n","g","i","n","e","e","r">>) /\ ~Contains(n, <<"E","s","t","i","m","a","t","e">>)

\* the flag of every record of a list is 1 exactly when its contractor
\* matches the Engineer's Estimate marker
FlagsMatch(out) ==
  \A i \in 1..Len(out) :
    out[i].is_engineers_estimate = 1 <=> IsEngineerLine(out[i].contractor)

\* C12: the registry holds no name that mentions 'Engineer' or 'Estimate',
\* and in every line-item record the flag is_engineers_estimate is 1 exactly
\* when the contractor matches the Engineer's Estimate marker.
C12_NeverContractor ==
  /\ RegistryClean
  /\ FlagsMatch(out_text)
  /\ FlagsMatch(out_tables)

\* the text strategy returned a record flagged 0 whose contractor name
\* mentions the Engineer's Estimate
C12_Witness ==
  /\ tx_pc = "done"
  /\ \E i \in 1..Len(out_text) :
       /\ out_text[i].is_engineers_estimate = 0
       /\ IsEngineerLine(out_text[i].contractor)


----------------------------------------------------------------------------
(* Schedule and option of the table-strategy records. *)

\* the schedule tag of the last page up to page k that carries one, or None
StickyTag(k) ==
  LET P == { p \in 1..k : ScheduleTag(tb_pages[p].text) # None }
  IN IF P = {} THEN None ELSE ScheduleTag(tb_pages[Max(P)].text)

\* the first character of a line-item code that starts with one capital
\* letter followed by a digit, or None
CodeLetter(line_item_no) ==
  IF /\ Len(line_item_no) >= 2
     /\ line_item_no[1] \in Upper
     /\ line_item_no[2] \in Digits
  THEN <<line_item_no[1]>> ELSE None

\* C13: the schedule of a table-strategy record is the schedule tag of its
\* page; without one, that of the last earlier page that has one; without
\* any tag so far, the first character of the record's line-item code when
\* the code starts with a capital letter followed by a digit.
C13_ScheduleFallback ==
  \A i \in 1..Len(out_tables) :
    out_tables[i].schedule =
      IF StickyTag(out_tables[i].pdf_page) # None
      THEN StickyTag(out_tables[i].pdf_page)
      ELSE CodeLetter(out_tables[i].line_item_no)

\* no page so far carries a schedule tag, and the record of line item A0200
\* has no schedule
C13_Witness ==
  \E i \in 1..Len(out_tables) :
    /\ version = 2
    /\ StickyTag(out_tables[i].pdf_page) = None
    /\ out_tables[i].line_item_no = <<"A","0","2","0","0">>
    /\ out_tables[i].schedule = None

\* the 'Option: X' tag a page carries, or None
OptionTag(text) == LastTag(splitlines(text), <<"O","p","t","i","o","n",":">>, FALSE, TRUE)

\* C14: the option of a table-strategy record of parser_v2 is the option tag
\* of the record's own page, and is absent when that page has none,
\* whatever the earlier pages carried.
C14_OptionNotCarried ==
  version = 2 =>
    \A i \in 1..Len(out_tables) :
      out_tables[i].option = OptionTag(tb_pages[out_tables[i].pdf_page].text)

\* page 1 carries an option tag, page 2 none, and a record of page 2 has no
\* option (its schedule is the one carried over from page 1)
C14_Witness ==
  /\ version = 2
  /\ Len(tb_pages) = 2
  /\ OptionTag(tb_pages[1].text) # None
  /\ OptionTag(tb_pages[2].text) = None
  /\ \E i \in 1..Len(out_tables) :
       /\ out_tables[i].pdf_page = 2
       /\ out_tables[i].option = None
       /\ out_tables[i].schedule # None

----------------------------------------------------------------------------
(* The text strategy (parser_v2) on the blocks of a page: documents of up   *)
(* to MaxBlockPages pages.                                                  *)

MaxBlockPages == 1

\* a page with two option tags and two items between them and after them:
\* buffered name fragments, a noise line, rows before and after the
\* estimate row, a name suffix, a row without name, a line with a line-item
\* code alone, and an item followed at once by the next item
PageBlocks ==
  <<"O","p","t","i","o","n",":"," ","X","\n","1","5","1","0","1","-","0","0","0","0"," ","A","0","3","0","0"," ","P","I","P","E","\n","A","c","m","e"," ","C","o","r","p",".","\n","w","a","l","l","\n","I","n","c",".","\n","$","9",".","0","0","\n","E","n","g","i","n","e","e","r","'","s"," ","E","s","t","i","m","a","t","e"," ","2"," ","E","A"," ","$","4",".","0","0","\n","Z","e","d"," ","L","L","C"," ","3"," ","L","S"," ","$","3",".","0","0","\n","I","n","d","u","s","t","r","i","e","s","\n","$","5",".","0","0","\n","B","o","l","t"," ","C","o"," ","$","6",".","0","0","\n","O","p","t","i","o","n",":"," ","Y","\n","A","0","4","0","0","\n","B","0","1","0","0"," ","2","0","0","0","0","-","0","0","0","1"," ","R","O","C","K","\n","C","0","0","0","1"," ","3","0","0","0","0","-","0","0","0","2"," ","S","A","N","D","\n","D","u","n","e"," ","C","o"," ","$","7",".","0","0">>

BlockPages == { PageBlocks, PagePlain }

BlockDocs == UNION { [1..n -> BlockPages] : n \in 1..MaxBlockPages }

InitBlocks ==
  /\ version = 2
  /\ project_name = <<"P">>
  /\ TextInit(BlockDocs)
  /\ TablesIdle /\ ReconcileIdle /\ DedupIdle /\ MainIdle /\ WorkersIdle /\ TokensIdle /\ FragmentsIdle /\ MetadataIdle /\ TextV1Idle /\ BidsIdle

SpecBlocks == InitBlocks /\ [][TextNext]_vars

\* while the rows of a block are parsed: the place on the page of the line
\* that started the item
ItemLine == tx_idx - Len(tx_block) - 1

\* the option of the last 'Option: X' tag in the first k lines of the page
OptionAt(k) == LastTag(SubSeq(tx_lines, 1, k), <<"O","p","t","i","o","n",":">>, FALSE, TRUE)

\* C15: a text-strategy record carries the option of the most recent
\* 'Option: X' tag at or before the first line of its item, so an item
\* between two different tags reports the first tag's option.
C15_OptionPerOccurrence ==
  [][ ( /\ tx_pc = "rows"
        /\ Len(out_text') = Len(out_text) + 1
        /\ OptionAt(ItemLine) # None )
      => out_text'[Len(out_text')].option = OptionAt(ItemLine) ]_vars

\* a record of the item that lies between 'Option: X' and 'Option: Y'
\* reports Y
C15_Witness ==
  /\ tx_pc = "rows"
  /\ OptionAt(ItemLine) = <<"X">>
  /\ OptionAt(Len(tx_lines)) = <<"Y">>
  /\ out_text # <<>>
  /\ out_text[Len(out_text)].pdf_page = tx_pageno
  /\ out_text[Len(out_text)].line_item_no = tx_item[1]
  /\ out_text[Len(out_text)].option = <<"Y">>

\* the line contains a line-item code and a pay-item code, in either order
IsItemStart(ln) == LINE_ITEM_RE_search(ln) # None /\ PAY_ITEM_RE_search(ln) # None

\* while a block is accumulated or parsed: it is the run of lines behind
\* the line that started the item, that line is an item start, and no line
\* of the block is one; once the block is complete the run is maximal
BlockIsRun ==
  tx_pc \in {"accum", "rows"} =>
    /\ ItemLine >= 1
    /\ IsItemStart(tx_lines[ItemLine])
    /\ tx_item[1] = LINE_ITEM_RE_search(tx_lines[ItemLine])
    /\ tx_item[2] = PAY_ITEM_RE_search(tx_lines[ItemLine])
    /\ tx_block = SubSeq(tx_lines, ItemLine + 1, tx_idx - 1)
    /\ \A k \in 1..Len(tx_block) : ~IsItemStart(tx_block[k])
    /\ tx_pc = "rows" => (tx_idx > Len(tx_lines) \/ IsItemStart(tx_lines[tx_idx]))

\* while the next item is looked for behind the first item start of the
\* page, no line is passed over: the line at hand is an item start
NoLineLeftOut ==
  ( /\ tx_pc = "seek"
    /\ tx_idx <= Len(tx_lines)
    /\ \E k \in 1..(tx_idx - 1) : IsItemStart(tx_lines[k]) )
  => IsItemStart(tx_lines[tx_idx])

\* the line at hand starts an item exactly when it is an item start
StartsExactly ==
  (tx_pc = "seek" /\ tx_idx <= Len(tx_lines) /\ tx_idx' = tx_idx + 1) =>
    (tx_pc' = "accum" <=> IsItemStart(tx_lines[tx_idx]))

\* an empty block emits nothing
EmptyBlockSilent ==
  (tx_pc = "rows" /\ tx_block = <<>>) => out_text' = out_text

\* C16: a line starts an item exactly when it contains a line-item code and
\* a pay-item code; the block of an item is the maximal run of following
\* lines that are not item starts; every line behind the first item start
\* of its page is an item start or in the block of the nearest item start
\* before it; an item start followed at once by another has an empty block
\* and emits no record.
C16_BlockSegmentation ==
  /\ [](BlockIsRun /\ NoLineLeftOut)
  /\ [][StartsExactly /\ EmptyBlockSilent]_vars

\* item B0100 is followed at once by the next item start: its block is
\* empty and no record of it exists
C16_Witness ==
  /\ tx_pc = "rows"
  /\ tx_block = <<>>
  /\ tx_item[1] = <<"B","0","1","0","0">>
  /\ tx_idx <= Len(tx_lines)
  /\ IsItemStart(tx_lines[tx_idx])
  /\ \E k \in 1..(ItemLine - 1) :
       LINE_ITEM_RE_search(tx_lines[k]) # None /\ ~IsItemStart(tx_lines[k])
  /\ \A i \in 1..Len(out_text) : out_text[i].line_item_no # <<"B","0","1","0","0">>

\* the row of the block being read is a contractor row: it holds a currency
\* amount and no Engineer's Estimate marker
ContractorRowNow ==
  /\ tx_pc = "rows"
  /\ tx_j <= Len(tx_block)
  /\ ~IsEngineerLine(tx_block[tx_j])
  /\ MONEY_RE_search(tx_block[tx_j])

\* the (quantity, unit) pair of the first Engineer's Estimate line of the
\* block at hand; absent without such a line
ReferencePair ==
  IF \E k \in 1..Len(tx_block) : IsEngineerLine(tx_block[k])
  THEN QtyUnitPair(FirstEngineerLine(tx_block)) ELSE <<None, None>>

\* C17: a contractor record carries the (quantity, unit) pair of its own
\* line when the line holds one, and otherwise the pair of the first
\* Engineer's Estimate line of its block, wherever that line stands; in a
\* block without such a line the quantity and unit are then absent.
C17_ReferenceQuantity ==
  [][ (ContractorRowNow /\ Len(out_text') = Len(out_text) + 1) =>
        LET own == QtyUnitPair(tx_block[tx_j])
            rec == out_text'[Len(out_text')]
        IN <<rec.quantity, rec.unit>> = IF own[1] # None THEN own ELSE ReferencePair
    ]_vars

\* the three cases on one page: a row before the estimate line with the
\* reference pair, a row behind it with its own pair, and a row of a block
\* without estimate line with neither quantity nor unit
C17_Witness ==
  /\ tx_pc = "done"
  /\ \E i \in 1..Len(out_text) : \E j \in (i + 2)..Len(out_text) :
       /\ out_text[i].is_engineers_estimate = 0
       /\ out_text[i + 1].is_engineers_estimate = 1
       /\ out_text[i].line_item_no = out_text[j].line_item_no
       /\ <<out_text[i].quantity, out_text[i].unit>> = <<<<2, 0>>, <<"E","A">>>>
       /\ <<out_text[i + 1].quantity, out_text[i + 1].unit>> = <<<<2, 0>>, <<"E","A">>>>
       /\ <<out_text[j].quantity, out_text[j].unit>> = <<<<3, 0>>, <<"L","S">>>>
  /\ \E i \in 1..Len(out_text) :
       /\ out_text[i].contractor = <<"D","u","n","e"," ","C","o">>
       /\ <<out_text[i].quantity, out_text[i].unit>> = <<None, None>>

\* line k of the block at hand is a contractor row
IsContractorRow(k) ==
  /\ ~IsEngineerLine(tx_block[k])
  /\ MONEY_RE_search(tx_block[k])

\* line k of the block at hand directly follows a contractor row and is its
\* name-suffix continuation
IsContinuation(k) ==
  /\ k > 1
  /\ IsContractorRow(k - 1)
  /\ ~MONEY_RE_search(tx_block[k])
  /\ looks_like_suffix(tx_block[k])

\* the last contractor row before line j of the block at hand, 0 without one
PreviousRow(j) ==
  LET rows == { k \in 1..(j - 1) : IsContractorRow(k) }
  IN IF rows = {} THEN 0 ELSE CHOOSE k \in rows : \A m \in rows : m <= k

\* the fragment-only lines between the previous contractor row and line j
FragmentLines(j) ==
  SelectSeq([ k \in 1..(j - 1) |-> k ],
            LAMBDA k : /\ k > PreviousRow(j)
                       /\ ~IsContinuation(k)
                       /\ ~IsEngineerLine(tx_block[k])
                       /\ ~MONEY_RE_search(tx_block[k])
                       /\ IsNameFragment(tx_block[k], contractor_frags))

\* the fragments buffered when line j of the block at hand is read
BufferedAt(j) == [ i \in 1..Len(FragmentLines(j)) |-> tx_block[FragmentLines(j)[i]] ]

\* the name of contractor row j by the rule: the text before the first
\* currency symbol, else the buffered fragments in order; a name-suffix
\* continuation on the next line is appended
ResolvedName(j) ==
  LET before == Strip(BeforeDollar(tx_block[j]), {" ", ","})
      base == IF before # <<>> THEN before
              ELSE Strip(Join(BufferedAt(j), " "), {" ", ","})
  IN IF j + 1 <= Len(tx_block) /\ IsContinuation(j + 1)
     THEN Strip(base \o <<" ">> \o tx_block[j + 1], {" ", ","})
     ELSE base

\* the buffer holds the fragment-only lines since the previous contractor row
BufferSincePreviousRow ==
  (tx_pc = "rows" /\ tx_j <= Len(tx_block) + 1) => name_parts = BufferedAt(tx_j)

\* a contractor row emits one record under its resolved name, or no record
\* when that name is empty, and empties the buffer
RowNamedByRule ==
  ContractorRowNow =>
    /\ name_parts' = <<>>
    /\ IF ResolvedName(tx_j) = <<>> THEN out_text' = out_text
       ELSE /\ Len(out_text') = Len(out_text) + 1
            /\ SubSeq(out_text', 1, Len(out_text)) = out_text
            /\ out_text'[Len(out_text')].contractor = ResolvedName(tx_j)
            /\ out_text'[Len(out_text')].is_engineers_estimate = 0

\* C18: the contractor of a non-engineer currency row of a text block is the
\* text before the first currency symbol of its line when that text is not
\* empty, and otherwise the fragments buffered from the fragment-only lines
\* since the previous such row, in order; the buffer is emptied after every
\* such row, and a row whose name is empty emits no record.
C18_ContractorNameResolution ==
  /\ []BufferSincePreviousRow
  /\ [][RowNamedByRule]_vars

\* a row without text before its amount has been emitted under the buffered
\* fragments, and the row just read had neither text nor fragments
C18_Witness ==
  /\ tx_pc = "rows"
  /\ tx_j > 1
  /\ tx_j <= Len(tx_block) + 1
  /\ IsContractorRow(tx_j - 1)
  /\ ResolvedName(tx_j - 1) = <<>>
  /\ \E k \in 1..(tx_j - 2) :
       /\ IsContractorRow(k)
       /\ Strip(BeforeDollar(tx_block[k]), {" ", ","}) = <<>>
       /\ Len(BufferedAt(k)) >= 2
       /\ \E i \in 1..Len(out_text) :
            /\ out_text[i].line_item_no = tx_item[1]
            /\ out_text[i].contractor = ResolvedName(k)
  /\ \A i \in 1..Len(out_text) : out_text[i].contractor # <<>>

\* a contractor row followed by its continuation appends that line to its
\* name and steps over it
ContinuationAppended ==
  (ContractorRowNow /\ tx_j + 1 <= Len(tx_block) /\ IsContinuation(tx_j + 1)) =>
    LET before == Strip(BeforeDollar(tx_block[tx_j]), {" ", ","})
        base == IF before # <<>> THEN before
                ELSE Strip(Join(name_parts, " "), {" ", ","})
    IN /\ tx_j' = tx_j + 2
       /\ name_parts' = <<>>
       /\ Len(out_text') = Len(out_text) + 1
       /\ out_text'[Len(out_text')].contractor =
            Strip(base \o <<" ">> \o tx_block[tx_j + 1], {" ", ","})

\* a continuation line is never read as a row of its own: it is not
\* buffered and emits no record
ContinuationNeverRead ==
  (tx_pc = "rows" /\ tx_j <= Len(tx_block)) => ~IsContinuation(tx_j)

\* a line read without amount and without marker leaves the records alone
FragmentEmitsNothing ==
  (tx_pc = "rows" /\ tx_j <= Len(tx_block)
     /\ ~IsEngineerLine(tx_block[tx_j]) /\ ~MONEY_RE_search(tx_block[tx_j]))
  => out_text' = out_text

\* C19: the line directly after a currency-bearing contractor row that has
\* no currency amount and holds a corporate-suffix token is appended to the
\* name of that row and consumed: it is not buffered for a later row and
\* emits no record of its own.
C19_SuffixConsumed ==
  /\ []ContinuationNeverRead
  /\ [][ContinuationAppended /\ FragmentEmitsNothing]_vars

\* a continuation line has just been stepped over, and the last record
\* carries it at the end of its name
C19_Witness ==
  /\ tx_pc = "rows"
  /\ tx_j >= 3
  /\ tx_j <= Len(tx_block) + 1
  /\ IsContinuation(tx_j - 1)
  /\ name_parts = <<>>
  /\ Len(out_text) > 0
  /\ LET name == out_text[Len(out_text)].contractor
         line == tx_block[tx_j - 1]
     IN /\ Len(name) > Len(line) + 1
        /\ SubSeq(name, Len(name) - Len(line) + 1, Len(name)) = line
        /\ \A i \in 1..(Len(out_text) - 1) : ~Contains(out_text[i].contractor, line)

\* the fragment dictionary of the registry
FragmentDictionary == { contractor_frags[k] : k \in 1..Len(contractor_frags) }

\* the line holds a fragment of the dictionary or a corporate-suffix token
Recognized(ln) ==
  \/ \E f \in FragmentDictionary : Contains(ln, f)
  \/ looks_like_suffix(ln)

\* the line at hand has neither a currency amount nor the engineer marker
PlainLineNow ==
  /\ tx_pc = "rows"
  /\ tx_j <= Len(tx_block)
  /\ ~IsEngineerLine(tx_block[tx_j])
  /\ ~MONEY_RE_search(tx_block[tx_j])

\* a plain line enters the buffer only when it is recognized, and leaves
\* buffer and records alone otherwise
BufferedOnlyIfRecognized ==
  PlainLineNow =>
    /\ name_parts' \in { name_parts, Append(name_parts, tx_block[tx_j]) }
    /\ name_parts' # name_parts => Recognized(tx_block[tx_j])
    /\ ~Recognized(tx_block[tx_j]) => (name_parts' = name_parts /\ out_text' = out_text)

\* the buffer holds recognized lines only
BufferRecognized == \A i \in 1..Len(name_parts) : Recognized(name_parts[i])

\* C20: a block line with neither currency amount nor engineer marker enters
\* the contractor-name buffer only if it holds a fragment of the registry's
\* fragment dictionary or a corporate-suffix token; any other such line never
\* reaches the buffer the names are made of.
C20_FragmentFilter ==
  /\ []BufferRecognized
  /\ [][BufferedOnlyIfRecognized]_vars

\* a row has been named from two buffered fragments with an unrecognized
\* line between them, and its name does not hold that line
C20_Witness ==
  /\ tx_pc = "rows"
  /\ tx_j > 1
  /\ tx_j <= Len(tx_block) + 1
  /\ IsContractorRow(tx_j - 1)
  /\ Len(out_text) > 0
  /\ out_text[Len(out_text)].contractor = ResolvedName(tx_j - 1)
  /\ LET fl == FragmentLines(tx_j - 1)
     IN /\ Len(fl) >= 2
        /\ \E k \in (fl[1] + 1)..(fl[2] - 1) :
             /\ tx_block[k] # <<>>
             /\ ~IsEngineerLine(tx_block[k])
             /\ ~MONEY_RE_search(tx_block[k])
             /\ ~Recognized(tx_block[k])
             /\ ~Contains(out_text[Len(out_text)].contractor, tx_block[k])

----------------------------------------------------------------------------
(* The fragment dictionary. *)

MaxNames == 2

RegistryNames ==
  { <<"A","c","m","e"," ","P","a","v","i","n","g"," ","I","n","c",".">>, <<"Z","e","d"," ","I","n","d","u","s","t","r","i","e","s"," ","L","L","C">>, <<"R","o","s","s",","," ","S","o","n","s"," ","C","o">>, <<"B","o","l","t"," ","C","o">>,
    <<"A"," ","B">>, <<"D","u","n","e"," ","C","o","r","p",".">>, <<"K","i","m"," ","L","L","C">>, <<>> }

NameSets == { ns \in SUBSET RegistryNames : Cardinality(ns) <= MaxNames }

InitFragments ==
  /\ version = 2
  /\ project_name = <<"P">>
  /\ FragmentsInit(NameSets)
  /\ TablesIdle /\ TextIdle /\ ReconcileIdle /\ DedupIdle /\ MainIdle /\ WorkersIdle /\ TokensIdle /\ MetadataIdle /\ TextV1Idle /\ BidsIdle

SpecFragments == InitFragments /\ [][FragmentsNext]_vars

\* the words of a name: its maximal runs without white space and comma
Words(name) == RunsFrom(name, 1, Whitespace \cup {","})

\* the runs of size consecutive words of a name, joined by one space
WordRuns(name, size) ==
  { Join(SubSeq(Words(name), i, i + size - 1), " ") :
      i \in 1..(Len(Words(name)) - size + 1) }

\* what the dictionary of a set of names holds by the rule
DictionaryByRule(names) ==
  (names \ {<<>>})
    \cup UNION { { f \in WordRuns(n, 2) \cup WordRuns(n, 3) : Len(f) >= 6 } : n \in names }
    \cup suffix_tokens

\* C21: the fragment dictionary of a set of contractor names holds every
\* full name, every run of 2 or 3 consecutive words of a name (words are
\* separated by white space or commas) of joined length at least 6, and
\* every suffix token, holds nothing else, and is ordered by non-increasing
\* length.
C21_FragmentDictionary ==
  fr_pc = "built" =>
    /\ { fr_out[k] : k \in 1..Len(fr_out) } = DictionaryByRule(fr_names)
    /\ \A k \in 1..(Len(fr_out) - 1) : Len(fr_out[k]) >= Len(fr_out[k + 1])

\* the dictionary of a name of three words has been built
C21_Witness ==
  /\ fr_pc = "built"
  /\ \E n \in fr_names :
       /\ Len(Words(n)) = 3
       /\ \E f \in WordRuns(n, 2) : Len(f) >= 6
  /\ suffix_tokens \subseteq { fr_out[k] : k \in 1..Len(fr_out) }

----------------------------------------------------------------------------
(* The table strategy on tables whose rows state prices, unreadable prices  *)
(* or no price.                                                             *)

\* a priced row; a row of a new item with unreadable prices and its
\* continuation row; a row without prices; a row with an amount only
GridPrices ==
  << Header,
     << <<"A","0","2","0","0">>, <<"1","5","1","0","1","-","0","0","0","0">>, <<"M","O","B">>, <<"A","c","m","e">>, <<"5","0","0">>, <<"C","U","Y","D">>, <<"1","0","0",".","0","0">>, <<"5","0",",","0","0","0",".","0","0">> >>,
     << <<"B","0","1","0","0">>, <<"2","0","0","0","0","-","0","0","0","1">>, <<"P","I","P","E">>, <<"Z","e","d">>, <<"2">>, <<"E","A">>, <<"N","/","A">>, <<"T","B","D">> >>,
     << None, None, None, <<"B","o","l","t">>, <<>>, <<>>, <<"$","1",".","5","0">>, <<>> >>,
     << <<>>, <<>>, <<>>, <<"D","u","n","e">>, <<"1">>, <<"L","S">>, None, None >>,
     << None, None, None, <<"K","i","m">>, None, None, <<"-">>, <<"$","3",".","0","0">> >> >>

PriceGrids == { GridPrices, GridSignature }

InitPrices ==
  /\ version \in {1, 2}
  /\ project_name = <<"P">>
  /\ TablesInit /\ TextIdle /\ ReconcileIdle /\ DedupIdle /\ MainIdle /\ WorkersIdle /\ TokensIdle /\ FragmentsIdle /\ MetadataIdle /\ TextV1Idle /\ BidsIdle

NextPrices ==
  \/ TablesPage(TableTexts, MaxPages)
  \/ TablesTable(PriceGrids, MaxTables)
  \/ TablesRow
  \/ TablesEndPage
  \/ TablesReturn

SpecPrices == InitPrices /\ [][NextPrices]_vars

\* a price cell read as currency: absent when the cell is empty or is no
\* number
PriceOf(cell) == IF cell = <<>> THEN None ELSE money_to_float(cell)

\* every record holds a unit price or an amount
RecordsPriced ==
  \A i \in 1..Len(out_tables) :
    out_tables[i].unit_price # None \/ out_tables[i].amount # None

\* a row whose two price cells are both absent emits nothing
UnpricedRowSkipped ==
  (/\ tb_pc = "row"
   /\ tb_ridx <= Len(tb_rows)
   /\ PriceOf(RowNow[7]) = None
   /\ PriceOf(RowNow[8]) = None) => out_tables' = out_tables

\* C22: every record of the table strategy has unit_price or amount
\* present; a row whose unit_price cell and amount cell are both empty or
\* both fail to parse as currency emits no record.
C22_PriceSignal ==
  /\ []RecordsPriced
  /\ [][UnpricedRowSkipped]_vars

\* a row with all it needs but unreadable prices has been passed over, a
\* row with empty price cells as well, and a row with an amount only was
\* recorded
C22_Witness ==
  /\ tb_pc = "table"
  /\ tb_rows # <<>>
  /\ tb_ridx = Len(tb_rows) + 1
  /\ \E k \in 1..Len(tb_rows) :
       LET c == RowCells(version, tb_rows[k])
       IN /\ c[1] # <<>> /\ c[2] # <<>> /\ c[4] # <<>>
          /\ c[7] # <<>> /\ c[8] # <<>>
          /\ PriceOf(c[7]) = None /\ PriceOf(c[8]) = None
          /\ \A i \in 1..Len(out_tables) : out_tables[i].contractor # c[4]
  /\ \E k \in 1..Len(tb_rows) :
       LET c == RowCells(version, tb_rows[k])
       IN /\ c[4] # <<>> /\ c[7] = <<>> /\ c[8] = <<>>
          /\ \A i \in 1..Len(out_tables) : out_tables[i].contractor # c[4]
  /\ \E i \in 1..Len(out_tables) :
       out_tables[i].unit_price = None /\ out_tables[i].amount # None

----------------------------------------------------------------------------
(* The metadata of the whole-document texts of up to MaxMetaLines lines.    *)

MaxMetaLines == 2

MetaLines ==
  { <<"R","e","p","o","r","t"," ","D","a","t","e",":"," ","1","/","2">>, <<"R","e","p","o","r","t"," ","D","a","t","e",":"," ","#","#">>, <<"r","e","p","o","r","t"," ","g","e","n","e","r","a","t","e","d"," ","o","n"," ","3","/","4"," ","x">>,
    <<"P","r","o","j","e","c","t"," ","N","a","m","e",":"," ","R","o","a","d"," ","5">>, <<"P","r","o","j","e","c","t"," ","N","a","m","e",":"," "," ">>, <<"D","i","v","i","s","i","o","n",":"," ","X">>,
    <<"F","o","o"," ","C","o","n","t","r","a","c","t","o","r"," ","R","e","s","p","o","n","s","i","v","e","?">>, <<"S","o","l","i","c","i","t","a","t","i","o","n"," ","N","o","."," ",":"," ","a","b","-","1"," ","c">>,
    <<"S","t","a","t","e",":"," ","W","A">>, <<"C","o","u","n","t","y",":"," ","K","i","n","g",","," ","9">>, <<"C","o","u","n","t","y",":"," "," ">>, <<"O","p","e","n","e","d"," ","a","t",":"," "," ">>,
    <<"O","p","e","n","e","d"," ","a","t",":"," ","R","o","o","m"," ","5">>, <<"B","i","d"," ","O","p","e","n"," ","D","a","t","e"," ","a","n","d"," ","T","i","m","e",":"," ">>, <<"B","i","d"," ","O","p","e","n"," ","D","a","t","e"," ","a","n","d"," ","T","i","m","e",":"," ","1","/","2"," ","9",":","3","0"," ","A","M"," ","x">> }

MetaTexts ==
  { Join(ls, "\n") : ls \in UNION { [1..n -> MetaLines] : n \in 1..MaxMetaLines } }

InitMetadata ==
  /\ version = 2
  /\ project_name = <<"P">>
  /\ MetadataInit(MetaTexts)
  /\ TablesIdle /\ TextIdle /\ ReconcileIdle /\ DedupIdle /\ MainIdle /\ WorkersIdle /\ TokensIdle /\ FragmentsIdle /\ TextV1Idle /\ BidsIdle

SpecMetadata == InitMetadata /\ [][MetadataNext]_vars

\* the first non-empty normalized group of the alternatives, absent
\* without one
FirstNonEmpty(found) ==
  LET K == { k \in 1..Len(found) : found[k] # None /\ normalize_ws(found[k]) # <<>> }
  IN IF K = {} THEN None ELSE normalize_ws(found[Min(K)])

\* C23: the value of a metadata field is the normalized capture of the
\* first pattern alternative, in the listed order, that matches the
\* whole-document text with a non-empty result; a field without such an
\* alternative is absent, never the empty string.
C23_MetadataFirstNonEmpty ==
  md_pc = "done" =>
    \A field \in MetadataFields :
      /\ md_meta[field] = FirstNonEmpty(Alternatives(field, md_text))
      /\ md_meta[field] # <<>>

\* a pattern of a field matched white space only
C23_Witness ==
  /\ md_pc = "done"
  /\ \E field \in MetadataFields :
       \E k \in 1..Len(Alternatives(field, md_text)) :
         /\ Alternatives(field, md_text)[k] # None
         /\ normalize_ws(Alternatives(field, md_text)[k]) = <<>>

\* the rows of the table at hand above the row being read that state the
\* code of column col (1: line item, 2: pay item)
StatedAbove(col) ==
  { k \in 1..(tb_ridx - 1) : RowCells(version, tb_rows[k])[col] # <<>> }

\* the code of column col stated last above the row being read
LatestStated(col) == RowCells(version, tb_rows[Max(StatedAbove(col))])[col]

\* C24: a record of the table strategy for a row with an empty line-item
\* (or pay-item) cell carries the code of the nearest earlier row of the
\* same table whose cell is not empty, also when that row emitted no record
\* for want of unit_price and amount; it never carries an older code.
C24_CarryForwardLatest ==
  [][ (/\ tb_pc = "row"
       /\ tb_ridx <= Len(tb_rows)
       /\ Len(out_tables') = Len(out_tables) + 1) =>
        LET rec == out_tables'[Len(out_tables')]
        IN /\ (RowNow[1] = <<>> /\ StatedAbove(1) # {}) =>
                rec.line_item_no = LatestStated(1)
           /\ (RowNow[2] = <<>> /\ StatedAbove(2) # {}) =>
                rec.pay_item_no = LatestStated(2)
    ]_vars

\* a row without codes has been recorded right below a row that states
\* both codes and a contractor but no readable price
C24_Witness ==
  /\ tb_ridx > 2
  /\ tb_ridx <= Len(tb_rows) + 1
  /\ Len(out_tables) > 0
  /\ LET above == RowCells(version, tb_rows[tb_ridx - 2])
         row == RowCells(version, tb_rows[tb_ridx - 1])
     IN /\ above[1] # <<>> /\ above[2] # <<>> /\ above[4] # <<>>
        /\ PriceOf(above[7]) = None /\ PriceOf(above[8]) = None
        /\ row[1] = <<>> /\ row[2] = <<>> /\ row[4] # <<>>
        /\ out_tables[Len(out_tables)].contractor = row[4]
        /\ out_tables[Len(out_tables)].line_item_no # above[1]

\* every record of the text strategy holds a unit price or an amount
TextRecordsPriced ==
  \A i \in 1..Len(out_text) :
    out_text[i].unit_price # None \/ out_text[i].amount # None

\* a block line without currency amount emits nothing
UnpricedLineSilent ==
  (/\ tx_pc = "rows"
   /\ tx_j <= Len(tx_block)
   /\ ~MONEY_RE_search(tx_block[tx_j])) => out_text' = out_text

\* C25: every record of the text strategy has unit_price or amount present;
\* a block line without currency amount, an Engineer's Estimate line
\* without amounts included, emits no record.
C25_TextPriceSignal ==
  /\ []TextRecordsPriced
  /\ [][UnpricedLineSilent]_vars

\* an Engineer's Estimate line without amounts has been read
C25_Witness ==
  /\ tx_pc = "rows"
  /\ tx_j > 1
  /\ tx_j <= Len(tx_block) + 1
  /\ IsEngineerLine(tx_block[tx_j - 1])
  /\ ~MONEY_RE_search(tx_block[tx_j - 1])
  /\ Len(out_text) > 0
  /\ out_text[Len(out_text)].is_engineers_estimate = 1
  /\ out_text[Len(out_text)].unit_price = None
  /\ out_text[Len(out_text)].amount = None

----------------------------------------------------------------------------
(* The text strategy on documents whose pages end inside a block and start  *)
(* with rows that precede the first item of the page.                       *)

\* a page that starts with a contractor row and an estimate row, then an
\* item with one row
PageLead ==
  <<"B","o","l","t"," ","C","o"," ","$","8",".","0","0","\n","E","n","g","i","n","e","e","r","'","s"," ","E","s","t","i","m","a","t","e"," ","1"," ","L","S"," ","$","2",".","0","0","\n","E","0","0","0","1"," ","4","0","0","0","0","-","0","0","0","1"," ","S","E","E","D","\n","K","i","m"," ","L","L","C"," ","$","1",".","0","0">>

PagingPages == { PageTagged, PageLead }

PagingDocs == UNION { [1..n -> PagingPages] : n \in 1..MaxPages }

InitPaging ==
  /\ version = 2
  /\ project_name = <<"P">>
  /\ TextInit(PagingDocs)
  /\ TablesIdle /\ ReconcileIdle /\ DedupIdle /\ MainIdle /\ WorkersIdle /\ TokensIdle /\ FragmentsIdle /\ MetadataIdle /\ TextV1Idle /\ BidsIdle

SpecPaging == InitPaging /\ [][TextNext]_vars

\* the lines of the page being scanned, from the document
LinesNow == PageLines(version, pages[tx_pageno])

\* the block at hand lies on the page being scanned: it is the run of lines
\* between an item-start line of that page and the line index
BlockOnPage ==
  tx_pc \in {"accum", "rows"} =>
    /\ ItemLine >= 1
    /\ detect_item_start(LinesNow[ItemLine]) # None
    /\ tx_item[1] = detect_item_start(LinesNow[ItemLine])[1]
    /\ tx_block = SubSeq(LinesNow, ItemLine + 1, tx_idx - 1)

\* the scan of a page starts in the state that looks for an item
PageStartsSeeking ==
  tx_pageno' # tx_pageno => (tx_pc' = "seek" /\ tx_idx' = 1)

\* a block is closed at an item-start line or at the last line of the page
BlockEndsOnPage ==
  (tx_pc = "accum" /\ tx_pc' = "rows") =>
    \/ tx_idx = Len(LinesNow) + 1
    \/ detect_item_start(LinesNow[tx_idx]) # None

\* a record comes from a block of the page being scanned only
RecordFromBlockOnPage ==
  out_text' # out_text =>
    /\ tx_pc = "rows"
    /\ Len(out_text') = Len(out_text) + 1
    /\ out_text'[Len(out_text')].pdf_page = tx_pageno
    /\ out_text'[Len(out_text')].line_item_no = detect_item_start(LinesNow[ItemLine])[1]

\* C26: blocks of the text strategy never span pages: the block of the last
\* item of a page ends at the last line of that page, the scan of every
\* page starts looking for an item, and the lines of a page before its
\* first item-start line belong to no block and emit no record, also when
\* the previous page ended inside a block.
C26_BlocksWithinPage ==
  /\ []BlockOnPage
  /\ [][PageStartsSeeking /\ BlockEndsOnPage /\ RecordFromBlockOnPage]_vars

\* the first page ended inside a block, the second page starts with two
\* rows holding amounts before its first item, and the second page gave
\* the one record of its own item
C26_Witness ==
  /\ tx_pc = "page"
  /\ tx_pageno = 2
  /\ LET first == PageLines(version, pages[1])
     IN /\ \E k \in 1..(Len(first) - 1) : detect_item_start(first[k]) # None
        /\ \A k \in 1..Len(first) :
             detect_item_start(first[k]) # None => k < Len(first)
        /\ MONEY_RE_search(first[Len(first)])
  /\ detect_item_start(LinesNow[1]) = None
  /\ detect_item_start(LinesNow[2]) = None
  /\ MONEY_RE_search(LinesNow[1])
  /\ IsEngineerLine(LinesNow[2])
  /\ Cardinality({ i \in 1..Len(out_text) : out_text[i].pdf_page = 2 }) = 1
  /\ \A i \in 1..Len(out_text) :
       out_text[i].pdf_page = 2 =>
         out_text[i].line_item_no = detect_item_start(LinesNow[3])[1]

\* the pair of output files of the document at a path
OutputsOf(path) == { bids_csv(path), items_csv(path) }

\* the documents processed so far with different paths have disjoint outputs
OutputsDisjoint ==
  \A i, k \in 1..(mn_k - 1) :
    (pdfs[i].path # pdfs[k].path /\ pdfs[i].decodable /\ pdfs[k].decodable) =>
      OutputsOf(pdfs[i].path) \cap OutputsOf(pdfs[k].path) = {}

\* a document writes no file that an earlier document of the batch wrote
NothingOverwritten ==
  (mn_pc = "decoded" /\ mn_pc' = "loop") =>
    written \cap OutputsOf(pdfs[mn_k].path) = {}

\* C27: two different input document paths processed into one output folder
\* have disjoint pairs of output files (bids summary, line items), so no
\* document overwrites the output of another one in a batch.
C27_DistinctOutputs ==
  /\ []OutputsDisjoint
  /\ [][NothingOverwritten]_vars

\* two documents with different paths have been written to one pair of files
C27_Witness ==
  /\ mn_k = 3
  /\ pdfs[1].path # pdfs[2].path
  /\ pdfs[1].decodable /\ pdfs[2].decodable
  /\ written = OutputsOf(pdfs[1].path)
  /\ written = OutputsOf(pdfs[2].path)

----------------------------------------------------------------------------
(* The text strategy of parser_v1 on documents of up to MaxPages pages.    *)

\* a page whose registry holds a name and a longer name that starts with it,
\* and a row that starts with both
PageTwoNames ==
  <<"B","o","l","t"," ","C","o"," ","L","L","C","\n","B","0","1","0","0"," ","2","0","0","0","0","-","0","0","0","0"," ","R","O","C","K"," "," ","w","a","l","l","\n","B","o","l","t"," ","C","o"," ","L","L","C"," ","I","n","c","."," ","3"," ","E","A"," ","$","1",".","0","0"," ","$","3",".","0","0","\n","E","n","g","i","n","e","e","r","'","s"," ","E","s","t","i","m","a","t","e"," ","1"," ","L","S"," ","$","2",".","0","0">>

PrefixPages == { PageTagged, PageOption, PageTwoNames }

PrefixDocs == UNION { [1..n -> PrefixPages] : n \in 1..MaxPages }

InitTextV1 ==
  /\ version = 1
  /\ project_name = <<"P">>
  /\ TextV1Init(PrefixDocs)
  /\ TablesIdle /\ ReconcileIdle /\ DedupIdle /\ MainIdle /\ WorkersIdle /\ TokensIdle /\ FragmentsIdle /\ MetadataIdle /\ BidsIdle

SpecTextV1 == InitTextV1 /\ [][TextNextV1]_vars

\* the scan is at a row of a block that is not an estimate row
ContractorRowV1 ==
  /\ tx_pc = "rows"
  /\ tx_j <= Len(tx_block)
  /\ ~IsEngineerLine(tx_block[tx_j])

\* every out the row scan can hold after this row
RowOutcomes ==
  { AfterRowV1(tx_block[tx_j], c) : c \in NameMatches(tx_block[tx_j]) }

\* the pages and the registry leave one outcome to the row
RowDetermined == ContractorRowV1 => \A o \in RowOutcomes : out_text' = o

\* C28: the text strategy is deterministic: for one sequence of page texts
\* and one registry, two runs emit the same records, the same contractor
\* for every row, also when several registry names are a prefix of one
\* block line: the records after a row are the only ones a run can emit.
C28_Deterministic == [][RowDetermined]_vars

\* a row that starts with two names of the registry was given one of them
C28_Witness ==
  /\ version = 1
  /\ tx_pc = "rows"
  /\ tx_j > 1
  /\ Cardinality(PrefixNames(tx_block[tx_j - 1])) >= 2
  /\ out_text # <<>>
  /\ out_text[Len(out_text)].contractor \in PrefixNames(tx_block[tx_j - 1])

----------------------------------------------------------------------------
(* parse_bid_amounts on documents of up to MaxPages pages.                  *)

\* a summary page: a bid, an estimate of 0.00, a name split around its amount
PageSummary ==
  <<"T","o","t","a","l"," ","B","a","s","e"," ","S","c","h","e","d","u","l","e"," ","A","\n","A","c","m","e"," ","C","o","r","p","."," ","$","5",".","0","0","\n","E","n","g","i","n","e","e","r","'","s"," ","E","s","t","i","m","a","t","e"," ","$","0",".","0","0","\n","Z","e","d","\n","$","7",".","5","0","\n","L","L","C">>

\* a summary page with amounts of 0.00 and a name of two letters
PageZeros ==
  <<"O","p","t","i","o","n",":"," ","X","\n","K","i","m"," ","L","L","C"," ","$","0",".","0","0","\n","a","b"," ","$","3",".","0","0","\n","B","o","l","t"," ","C","o","\n","$","0",".","0","0","\n","e","n","g","i","n","e","e","r","s"," ","e","s","t","i","m","a","t","e"," ","$","9",".","0","0","I","n","c",".">>

\* a page of the line-item tables, and a page that is no summary
PageItems == <<"L","i","n","e"," ","I","t","e","m","\n","A","c","m","e"," ","C","o","r","p","."," ","$","5",".","0","0">>
PageOther == <<"S","c","h","e","d","u","l","e",":"," ","B","\n","D","u","n","e"," ","C","o","r","p","."," ","$","2",".","0","0">>

BidPages == { PageSummary, PageZeros, PageItems, PageOther }

BidDocs == UNION { [1..n -> BidPages] : n \in 1..MaxPages }

InitBids ==
  /\ version = 2
  /\ project_name = <<"P">>
  /\ BidsInit(BidDocs)
  /\ TablesIdle /\ TextIdle /\ ReconcileIdle /\ MainIdle /\ WorkersIdle /\ TokensIdle /\ FragmentsIdle /\ MetadataIdle /\ TextV1Idle

SpecBids == InitBids /\ [][BidsNext]_vars

\* a record of the bid summary is sound: the amount is present and not 0.0,
\* the contractor is the estimate or a name of three characters or more
BidRecordSound(r) ==
  /\ r.bid_amount # None
  /\ r.bid_amount # <<0, 0>>
  /\ \/ r.contractor = <<"E","n","g","i","n","e","e","r","'","s"," ","E","s","t","i","m","a","t","e">>
     \/ Len(r.contractor) >= 3

BidRecordsSound ==
  /\ \A k \in 1..Len(bid_rows) : BidRecordSound(bid_rows[k])
  /\ \A k \in 1..Len(dedup) : BidRecordSound(dedup[k])

\* the amount of the summary row at line k of the page: the first amount of
\* its candidate, or None when the line is no row
RowAmount(k) ==
  LET c == LineCandidate(bs_lines, k)
      P == {p \in 1..Len(c) : BidMoneyEnd(c, p) # 0}
  IN IF c = None \/ c = <<>> THEN None
     ELSE IF P = {} THEN None
     ELSE money_to_float(SubSeq(c, Min(P), BidMoneyEnd(c, Min(P)) - 1))

\* the line pass is at a row whose amount parses to 0.0
ZeroRowNow ==
  /\ bd_pc = "lines"
  /\ bs_idx <= Len(bs_lines)
  /\ RowAmount(bs_idx) = <<0, 0>>

ZeroRowSilent == ZeroRowNow => bid_rows' = bid_rows

\* C29: every record of the bid summary has a present, non-zero bid_amount
\* and a contractor that is "Engineer's Estimate" or a name of at least 3
\* characters; a summary row whose amount parses to 0.0 emits no record.
C29_BidRecordsSound == []BidRecordsSound /\ [][ZeroRowSilent]_vars

\* a row of 0.00 was passed over, and the page gave records
C29_Witness ==
  /\ bd_pc = "lines"
  /\ bs_idx > 1
  /\ RowAmount(bs_idx - 1) = <<0, 0>>
  /\ bid_rows # <<>>
  /\ bid_rows[Len(bid_rows)].pdf_page = bs_i

----------------------------------------------------------------------------
(* Termination of the text strategy. The scan is one sequential loop: as   *)
(* long as a statement is left to run, the interpreter runs it.             *)

MaxScanPages == 2

\* pages with a suffix line behind a contractor row, a line that is no row,
\* two items on one page
ScanPages == { PagePlain, PageOption }

ScanDocs == UNION { [1..n -> ScanPages] : n \in 1..MaxScanPages }

InitScan ==
  /\ version = 2
  /\ project_name = <<"P">>
  /\ TextInit(ScanDocs)
  /\ TablesIdle /\ ReconcileIdle /\ DedupIdle /\ MainIdle /\ WorkersIdle /\ TokensIdle /\ FragmentsIdle /\ MetadataIdle /\ TextV1Idle /\ BidsIdle

SpecTextFair == InitScan /\ [][TextNext]_vars /\ WF_vars(TextNext)

\* a step of the item scan, a step of the block accumulation
ItemScanStep == tx_pc = "seek" /\ tx_idx <= Len(tx_lines)
AccumulationStep ==
  /\ tx_pc = "accum"
  /\ tx_idx <= Len(tx_lines)
  /\ detect_item_start(tx_lines[tx_idx]) = None

LineIndexAdvances ==
  (ItemScanStep \/ AccumulationStep) =>
     /\ tx_idx' > tx_idx
     /\ tx_idx' <= Len(tx_lines) + 1
     /\ tx_lines' = tx_lines

\* a step of the row scan: by 1, or by 2 over the suffix line behind a
\* contractor row
RowScanStep == tx_pc = "rows" /\ tx_j <= Len(tx_block)

RowIndexAdvances ==
  RowScanStep =>
     /\ tx_block' = tx_block
     /\ \/ tx_j' = tx_j + 1
        \/ /\ tx_j' = tx_j + 2
           /\ tx_j + 1 <= Len(tx_block)
           /\ IsContinuation(tx_j + 1)

\* the scan has left the last page
ScanEnded == tx_pc = "done" /\ tx_pageno = Len(pages)

\* C30: the scan of the text strategy terminates on every finite document:
\* the line index strictly increases at every step of the item scan and of
\* the block accumulation, the row index strictly increases at every step
\* of the row scan (by 1, or by 2 when a suffix line is consumed), and the
\* scan reaches the end of the last page.
C30_ScanTerminates ==
  /\ [][LineIndexAdvances]_vars
  /\ [][RowIndexAdvances]_vars
  /\ <>ScanEnded

\* the scan of a document of two pages has ended, and the last row scan
\* went over a suffix line
C30_Witness ==
  /\ ScanEnded
  /\ Len(pages) = MaxScanPages
  /\ tx_block # <<>>
  /\ IsContinuation(Len(tx_block))
  /\ tx_j = Len(tx_block) + 1

=============================================================================
